---- MODULE Spec2Model ----
(***************************************************************************)
(* Model of the privacy cross-chain bridge:                                *)
(*   - EnhancedMPCSigner      (threshold-signature coordinator)            *)
(*   - PrivacyCrossChainBridge (transfer orchestrator) with                *)
(*     PrivacyPolicyManager and DIDRelay                                   *)
(*   - PrivacyCrossChainVerifier (ledger-side verifier)                    *)
(* Each component has its own specification over the shared variables; the *)
(* variables of the other components stay at their initial values.         *)
(***************************************************************************)
EXTENDS Integers, Sequences, FiniteSets, TLC

(***************************************************************************)
(* Bounds of the model.                                                    *)
(***************************************************************************)
\* number of handleSignatureShare calls explored
MaxShareCalls == 4
\* number of onSignatureReady registrations explored
MaxRegistrations == 1

\* number of transfer workflows explored (each is one call of
\* initiatePrivateTransfer, burnForTransfer or lockNativeAsset)
MaxTransfers == 1

\* number of mintWithProof transactions explored
MaxMintCalls == 2

\* seconds by which the ledger time advances during an exploration
MaxSeconds == 1

\* number of updateTransactionCache calls explored on a full cache
MaxCacheWrites == 2
\* milliseconds by which Date.now() advances while they are explored
MaxCacheTicks == 1

\* number of getRecommendedPrivacyLevel calls explored on the policy manager alone
MaxPolicyCalls == 1

\* number of burnToChain, lockNativeAsset, withdrawLockedAsset and
\* registerRelayAddress transactions explored together with the mints
MaxLedgerCalls == 3
\* seconds by which the ledger time advances while relay bindings are explored
MaxLedgerSeconds == 2
\* the largest modulus handed to ECC.modinv
MaxModulus == 13
\* getNetworkCongestion calls explored, and the four-minute steps of Date.now()
\* between them
MaxCongestionCalls == 3
MaxCongestionTicks == 4
\* calls of init, signHash and destroy on the signing node
MaxInitCalls == 2
MaxSignCalls == 2
MaxDestroyCalls == 2

(***************************************************************************)
(* Program constants.                                                      *)
(***************************************************************************)
\* config.ts: THRESHOLD = parseInt(process.env.THRESHOLD || '3', 10)
THRESHOLD == 3
\* PrivacyCrossChainBridge.ts main(): totalNodes: parseInt(process.env.TOTAL_NODES || "4")
totalNodes == 4

\* PrivacyCrossChainBridge.ts updateTransactionCache: if (this.transactionCache.size > 1000)
CACHE_LIMIT == 1000
\* PrivacyCrossChainBridge.ts getGasPrice: return 30 (default, Gwei)
DEFAULT_GAS_PRICE == 30
\* PrivacyPolicyManager getNetworkCongestion: return 50 (default congestion)
DEFAULT_CONGESTION == 50
\* DIDRelay: RELAY_ADDRESS_TTL = 600 * 1000 (milliseconds)
RELAY_ADDRESS_TTL == 600000

Hashes == {"h1", "h2"}
\* the coordinator never reads the bytes of a share: it stores and forwards them
ShareBytes == {"sA"}
\* node indices handed to handleSignatureShare, valid (1..totalNodes) or not
Indices == 0..(totalNodes + 1)
NoListener == [id |-> 0, throws |-> FALSE]

VARIABLES
    \* ---- EnhancedMPCSigner ----
    pendingShares,        \* messageHash -> sequence of [share, index]
    signatureListeners,   \* messageHash -> registered callback, or NoListener
    inFlight,             \* messageHash -> aggregate-signatures requests awaiting their response
    aggregationsIssued,   \* history: messageHash -> number of aggregate-signatures requests sent
    invocations,          \* history: messageHash -> sequence of callback ids invoked
    registrations,        \* history: number of onSignatureReady calls
    shareCalls,           \* history: number of handleSignatureShare calls
    lastCall,             \* history: the last coordinator operation and its outcome
    keyShare,             \* <<"null", 0>>, <<"zeros", 0>> or <<"secret", n>>: the n-th share generated
    postQuantumKeyPair,   \* "null" or "pair"
    isTeeInitialized,     \* boolean
    TEE_ENABLED,          \* config.ts: process.env.TEE_ENABLED === 'true'
    signerCalls,          \* the signHash call in progress or last returned, and call counts
    \* ---- PrivacyCrossChainBridge, PrivacyPolicyManager, DIDRelay ----
    pc,                   \* transfer -> suspension point of its workflow
    xfer,                 \* transfer -> the local variables of its workflow
    transactionCache,     \* the Map: insertion order of the keys, and the entry of each key
    userPreferences,      \* PrivacyPolicyManager.userPreferences: user -> level (0 = none)
    relayAddresses,       \* DIDRelay.relayAddresses: the relay ids registered, with expiry
    clock,                \* Date.now()
    statusLog,            \* history: transfer -> the statuses written to the cache, in order
    calls,                \* history: transfer -> collaborator requests sent, per collaborator
    \* ---- PrivacyCrossChainVerifier (the ledger contract) ----
    paused,               \* Pausable
    currentRoot,          \* bytes32 currentRoot
    processedProofs,      \* the proof hashes h with processedProofs[h] = true
    relayAddressMap,      \* relayId -> target address (ZERO_ADDRESS when unbound)
    balanceOf,            \* ERC20 balances
    totalSupply,          \* ERC20 total supply
    blockTimestamp,       \* block.timestamp
    accepted,             \* history: (a, b, c, inputs, relayId, quantumSignature) of the mints done
    mintCount,            \* history: number of mintWithProof calls that returned true
    mintCalls,            \* history: number of mintWithProof calls
    lastMint,             \* history: the last mintWithProof call and its outcome
    nativeBalance,        \* address(this).balance
    txCalls,              \* history: number of burn, lock, withdraw and register-relay calls
    lastTx,               \* history: the last of these calls and its outcome
    relayExpiry,          \* history: relayId -> the expires argument of its last registration
    authorizedOracles,    \* the addresses o with authorizedOracles[o] = true
    userPrivacyPreferences, \* address -> level (0 when never set)
    \* ---- operations called on their own ----
    cacheCalls,           \* history: the updateTransactionCache calls made on the full cache
    policyCall,           \* the getRecommendedPrivacyLevel call in progress or last returned
    lastRequest,          \* history: the arguments of the last mintWithProof call examined
    messages,             \* the message the orchestrator hashed and the one the ledger builds
    schnorrCall,          \* the last ECC.verifySchnorr call made on its own, and its result
    eccCall,              \* the last ECC.modinv or ECC.sqrt call made on its own, and its result
    networkCongestionCache, \* chainId -> congestion level, for the chains cached
    lastCongestionCheck,  \* Date.now() of the last congestion fetch that succeeded
    congestionCall        \* history: the last getNetworkCongestion call and where its value came from

signerVars == <<pendingShares, signatureListeners, inFlight, aggregationsIssued,
                invocations, registrations, shareCalls, lastCall, keyShare,
                postQuantumKeyPair, isTeeInitialized, TEE_ENABLED, signerCalls>>

bridgeVars == <<pc, xfer, transactionCache, userPreferences, relayAddresses, clock,
                statusLog, calls>>

verifierVars == <<paused, currentRoot, processedProofs, relayAddressMap, balanceOf,
                  totalSupply, blockTimestamp, accepted, mintCount, mintCalls, lastMint>>

vaultVars == <<nativeBalance, txCalls, lastTx, relayExpiry, authorizedOracles,
               userPrivacyPreferences>>

callVars == <<cacheCalls, policyCall, lastRequest, messages, schnorrCall, eccCall>>

congestionVars == <<networkCongestionCache, lastCongestionCheck, congestionCall>>

vars == <<signerVars, bridgeVars, verifierVars, vaultVars, callVars, congestionVars>>

\* a step of one component leaves the other components alone
SignerFrame == UNCHANGED <<bridgeVars, verifierVars, vaultVars, callVars, congestionVars, keyShare,
                           postQuantumKeyPair, isTeeInitialized, TEE_ENABLED, signerCalls>>
BridgeFrame == UNCHANGED <<signerVars, verifierVars, vaultVars, callVars, congestionVars>>
VerifierFrame == UNCHANGED <<signerVars, bridgeVars, vaultVars, callVars, congestionVars>>
LedgerFrame == UNCHANGED <<signerVars, bridgeVars, callVars, congestionVars>>

(***************************************************************************)
(* EnhancedMPCSigner                                                       *)
(***************************************************************************)
NoCall == [op |-> "none", hash |-> "h1", index |-> 0, dup |-> FALSE, result |-> "none"]

HasIndex(shares, index) == \E k \in 1..Len(shares) : shares[k].index = index

CountIndex(shares, index) == Cardinality({k \in 1..Len(shares) : shares[k].index = index})

\* a slip that would drop the duplicate check
AddShareNoDedup(shares, share, index) == Append(shares, [share |-> share, index |-> index])

\* handleSignatureShare: push the share unless one from that node is present
AddShare(shares, share, index) ==
    IF ~HasIndex(shares, index)
    THEN Append(shares, [share |-> share, index |-> index])
    ELSE shares

\* a handler whose range test lets the index after the last node through
handleSignatureShareWideRange(messageHash, share, index) ==
    /\ shareCalls < MaxShareCalls
    /\ shareCalls' = shareCalls + 1
    /\ IF index < 1 \/ index > totalNodes + 1
       THEN /\ lastCall' = [op |-> "share", hash |-> messageHash, index |-> index,
                            dup |-> FALSE, result |-> "InvalidNodeIndex"]
            /\ UNCHANGED <<pendingShares, inFlight, aggregationsIssued>>
       ELSE LET shares == AddShare(pendingShares[messageHash], share, index)
                fire == Len(shares) >= THRESHOLD
            IN  /\ pendingShares' = [pendingShares EXCEPT ![messageHash] = shares]
                /\ inFlight' = [inFlight EXCEPT ![messageHash] = @ + (IF fire THEN 1 ELSE 0)]
                /\ aggregationsIssued' =
                       [aggregationsIssued EXCEPT ![messageHash] = @ + (IF fire THEN 1 ELSE 0)]
                /\ lastCall' = [op |-> "share", hash |-> messageHash, index |-> index,
                                dup |-> HasIndex(pendingShares[messageHash], index),
                                result |-> IF fire THEN "aggregating" ELSE "stored"]
    /\ UNCHANGED <<signatureListeners, invocations, registrations>>

\* handleSignatureShare up to its first suspension point (the await of
\* aggregateSignatures, whose request is posted before the handler yields)
handleSignatureShare(messageHash, share, index) ==
    /\ shareCalls < MaxShareCalls
    /\ shareCalls' = shareCalls + 1
    /\ IF index < 1 \/ index > totalNodes
       THEN /\ lastCall' = [op |-> "share", hash |-> messageHash, index |-> index,
                            dup |-> FALSE, result |-> "InvalidNodeIndex"]
            /\ UNCHANGED <<pendingShares, inFlight, aggregationsIssued>>
       ELSE LET shares == AddShare(pendingShares[messageHash], share, index)
                fire == Len(shares) >= THRESHOLD
            IN  /\ pendingShares' = [pendingShares EXCEPT ![messageHash] = shares]
                /\ inFlight' = [inFlight EXCEPT ![messageHash] = @ + (IF fire THEN 1 ELSE 0)]
                /\ aggregationsIssued' =
                       [aggregationsIssued EXCEPT ![messageHash] = @ + (IF fire THEN 1 ELSE 0)]
                /\ lastCall' = [op |-> "share", hash |-> messageHash, index |-> index,
                                dup |-> HasIndex(pendingShares[messageHash], index),
                                result |-> IF fire THEN "aggregating" ELSE "stored"]
    /\ UNCHANGED <<signatureListeners, invocations, registrations>>

\* the continuation of handleSignatureShare once aggregateSignatures settles:
\* ok = the signer network answered, ~ok = the request failed (caught, logged)
aggregateSignaturesReturns(messageHash, ok) ==
    /\ inFlight[messageHash] > 0
    /\ inFlight' = [inFlight EXCEPT ![messageHash] = @ - 1]
    /\ LET listener == signatureListeners[messageHash]
       IN  IF ok /\ listener # NoListener
           THEN /\ invocations' = [invocations EXCEPT ![messageHash] = Append(@, listener.id)]
                /\ IF listener.throws
                   THEN \* the callback's exception lands in the catch: nothing is deleted
                        /\ UNCHANGED <<signatureListeners, pendingShares>>
                        /\ lastCall' = [NoCall EXCEPT !.op = "aggregated", !.hash = messageHash,
                                                      !.result = "callbackThrew"]
                   ELSE /\ signatureListeners' =
                               [signatureListeners EXCEPT ![messageHash] = NoListener]
                        /\ pendingShares' = [pendingShares EXCEPT ![messageHash] = <<>>]
                        /\ lastCall' = [NoCall EXCEPT !.op = "aggregated", !.hash = messageHash,
                                                      !.result = "delivered"]
           ELSE /\ UNCHANGED <<signatureListeners, pendingShares, invocations>>
                /\ lastCall' = [NoCall EXCEPT !.op = "aggregated", !.hash = messageHash,
                                              !.result = IF ok THEN "noListener" ELSE "failed"]
    /\ UNCHANGED <<aggregationsIssued, registrations, shareCalls>>

\* onSignatureReady: store (or overwrite) the callback of the hash
onSignatureReady(messageHash, throws) ==
    /\ registrations < MaxRegistrations
    /\ registrations' = registrations + 1
    /\ signatureListeners' =
           [signatureListeners EXCEPT ![messageHash] = [id |-> registrations + 1, throws |-> throws]]
    /\ lastCall' = [NoCall EXCEPT !.op = "register", !.hash = messageHash, !.result = "registered"]
    /\ UNCHANGED <<pendingShares, inFlight, aggregationsIssued, invocations, shareCalls>>

(***************************************************************************)
(* PrivacyPolicyManager                                                    *)
(***************************************************************************)
\* enum PrivacyLevel
Basic == 1
Standard == 2
Enhanced == 3
Maximum == 4

Min2(a, b) == IF a < b THEN a ELSE b
Max2(a, b) == IF a > b THEN a ELSE b

\* amounts are counted in units of 10^17 wei (0.1 ETH): every amount threshold of
\* the policy is a multiple of it, so amount >= threshold is decided by the
\* number of whole units
\* amountThresholds[Standard] = parseEther('1')
AMOUNT_STANDARD == 10
\* amountThresholds[Enhanced] = parseEther('10')
AMOUNT_ENHANCED == 100
\* amountThresholds[Maximum] = parseEther('100')
AMOUNT_MAXIMUM == 1000

\* gasPriceThresholds, in Gwei
gasPriceThresholds(level) ==
    CASE level = Basic -> 50
      [] level = Standard -> 30
      [] level = Enhanced -> 20
      [] level = Maximum -> 10

\* chainPrivacyDefaults.get(chainId) || PrivacyLevel.Standard
chainPrivacyDefaults(chainId) ==
    CASE chainId = "ethereum" -> Standard
      [] chainId = "binance" -> Basic
      [] chainId = "moca" -> Enhanced
      [] chainId = "avalanche" -> Standard
      [] chainId = "polygon" -> Basic
      [] OTHER -> Standard

\* the level from the amount alone
BaseLevel(chainId, amount) ==
    IF amount >= AMOUNT_MAXIMUM THEN Maximum
    ELSE IF amount >= AMOUNT_ENHANCED THEN Enhanced
    ELSE IF amount >= AMOUNT_STANDARD THEN Standard
    ELSE chainPrivacyDefaults(chainId)

\* a gas adjustment that also lowers the level at the threshold itself
GasAdjustedInclusive(level, gasPrice) ==
    IF gasPrice >= gasPriceThresholds(level) /\ level > Basic THEN level - 1 ELSE level

\* "if (gasPrice > this.gasPriceThresholds[level] && level > PrivacyLevel.Basic)"
GasAdjusted(level, gasPrice) ==
    IF gasPrice > gasPriceThresholds(level) /\ level > Basic THEN level - 1 ELSE level

CongestionAdjusted(level, congestion) ==
    IF congestion > 70 /\ level > Basic THEN Max2(Basic, level - 1)
    ELSE IF congestion < 30 /\ level < Maximum THEN Min2(Maximum, level + 1)
    ELSE level

\* a level decision that adjusts a stored preference like a computed level
getRecommendedAdjustsPreference(preference, chainId, amount, gasPrice, congestion) ==
    CongestionAdjusted(GasAdjusted(IF preference # 0 THEN preference
                                   ELSE BaseLevel(chainId, amount), gasPrice), congestion)

\* getRecommendedPrivacyLevel; preference = 0 when the user has none stored
getRecommendedPrivacyLevel(preference, chainId, amount, gasPrice, congestion) ==
    IF preference # 0
    THEN preference
    ELSE CongestionAdjusted(GasAdjusted(BaseLevel(chainId, amount), gasPrice), congestion)

\* getPrivacyConfig
getPrivacyConfig(level) ==
    CASE level = Basic ->
           [useZKProof |-> FALSE, hideAmount |-> FALSE, useRelayAddress |-> FALSE,
            usePostQuantum |-> FALSE, zkCircuitSize |-> "small"]
      [] level = Standard ->
           [useZKProof |-> TRUE, hideAmount |-> FALSE, useRelayAddress |-> FALSE,
            usePostQuantum |-> FALSE, zkCircuitSize |-> "small"]
      [] level = Enhanced ->
           [useZKProof |-> TRUE, hideAmount |-> TRUE, useRelayAddress |-> TRUE,
            usePostQuantum |-> FALSE, zkCircuitSize |-> "medium"]
      [] level = Maximum ->
           [useZKProof |-> TRUE, hideAmount |-> TRUE, useRelayAddress |-> TRUE,
            usePostQuantum |-> TRUE, zkCircuitSize |-> "large"]
      [] OTHER ->
           [useZKProof |-> TRUE, hideAmount |-> FALSE, useRelayAddress |-> FALSE,
            usePostQuantum |-> FALSE, zkCircuitSize |-> "small"]

\* a setUserPreference that stores what it is given
setUserPreferenceUnchecked(userId, level) ==
    /\ userPreferences' = [userPreferences EXCEPT ![userId] = level]
    /\ UNCHANGED <<pc, xfer, transactionCache, relayAddresses, clock, statusLog, calls>>

\* setUserPreference: stores a member of the enum, throws on anything else
setUserPreference(userId, level) ==
    /\ userPreferences' =
           IF level \in Basic..Maximum
           THEN [userPreferences EXCEPT ![userId] = level]
           ELSE userPreferences
    /\ UNCHANGED <<pc, xfer, transactionCache, relayAddresses, clock, statusLog, calls>>

(***************************************************************************)
(* PrivacyCrossChainBridge: the transfer cache                             *)
(***************************************************************************)
EmptyMap == [order |-> <<>>, entry |-> <<>>]

MapHas(map, key) == key \in DOMAIN map.entry

\* Map.set: a new key goes last in iteration order, a known key keeps its place
MapSet(map, key, value) ==
    [order |-> IF MapHas(map, key) THEN map.order ELSE Append(map.order, key),
     entry |-> (key :> value) @@ map.entry]

MapDelete(map, key) ==
    [order |-> SelectSeq(map.order, LAMBDA k : k # key),
     entry |-> [k \in (DOMAIN map.entry) \ {key} |-> map.entry[k]]]

\* an eviction that takes the key last in iteration order
LastKey(map) == map.order[Len(map.order)]

\* Array.from(entries()).sort((a, b) => a[1].timestamp - b[1].timestamp)[0][0]:
\* the sort is stable, so among the entries of least timestamp the first in
\* iteration order comes first
OldestKey(map) ==
    LET least == CHOOSE i \in 1..Len(map.order) :
                    /\ \A j \in 1..Len(map.order) :
                          map.entry[map.order[i]].timestamp <= map.entry[map.order[j]].timestamp
                    /\ \A j \in 1..(i - 1) :
                          map.entry[map.order[j]].timestamp > map.entry[map.order[i]].timestamp
    IN  map.order[least]

\* updateTransactionCache
updateTransactionCache(map, transferId, status, data, now) ==
    LET written == MapSet(map, transferId,
                          [status |-> status,
                           data |-> [keys |-> data.keys \cup {"updatedAt"}, error |-> data.error],
                           timestamp |-> now])
    IN  IF Len(written.order) > CACHE_LIMIT
        THEN MapDelete(written, OldestKey(written))
        ELSE written

(***************************************************************************)
(* PrivacyCrossChainBridge: the transfer workflows                         *)
(***************************************************************************)
Transfers == 1..MaxTransfers
Users == {"alice"}
\* target chains: one with default Basic, one with default Enhanced, one unconfigured
Chains == {"binance", "moca", "other"}
\* amounts in units of 0.1 ETH: below every threshold, and at the Maximum one
Amounts == {5, 1000}
\* an answer of the gas-price oracle, in Gwei, above every threshold (a failed
\* request gives DEFAULT_GAS_PRICE, which is above some thresholds only)
GasPrices == {60}
\* answers of the congestion oracle (after clamping to 0..100): uncongested and
\* congested (a failed request gives DEFAULT_CONGESTION, which is neither)
CongestionLevels == {20, 80}


\* levels handed to setUserPreference: a member of the enum and a non-member
PreferenceInputs == {Maximum, Maximum + 1}

Data(keys) == [keys |-> keys, error |-> ""]
ErrorData(message) == [keys |-> {"error"}, error |-> message]

NoCalls == [network |-> 0, gas |-> 0, congestion |-> 0, relay |-> 0, proof |-> 0,
            sign |-> 0, submit |-> 0, wait |-> 0]

NoTransfer == [kind |-> "none", chain |-> "none", amount |-> 0, user |-> "none",
               status |-> "none", gasPrice |-> 0, level |-> 0, relayId |-> 0,
               relayNotified |-> "none", zkProof |-> FALSE, signature |-> FALSE,
               txHash |-> FALSE, failedAt |-> "none", returned |-> "none",
               \* the lookups of the level decision that fell back to their default
               \* (kept until the workflow's next step)
               fallback |-> {}]

\* status = ...; this.updateTransactionCache(transferId, status, data)
WriteStatus(t, status, data) ==
    /\ transactionCache' = updateTransactionCache(transactionCache, t, status, data, clock)
    /\ statusLog' = [statusLog EXCEPT ![t] = Append(@, status)]

\* a catch block that returns without recording FAILED
AbortKeepsStatus(t, step, message) ==
    /\ xfer' = [xfer EXCEPT ![t].failedAt = step, ![t].returned = xfer[t].status,
                            ![t].fallback = {}]
    /\ pc' = [pc EXCEPT ![t] = "done"]
    /\ UNCHANGED <<transactionCache, statusLog, calls, relayAddresses>>

\* a catch block that records FAILED and lets the workflow go on (a retry)
AbortContinues(t, step, message) ==
    /\ WriteStatus(t, "FAILED", ErrorData(message))
    /\ xfer' = [xfer EXCEPT ![t].status = "FAILED", ![t].failedAt = step,
                            ![t].fallback = {}]
    /\ UNCHANGED <<pc, calls, relayAddresses>>

\* the catch block of a workflow, then its return
Abort(t, step, message) ==
    /\ WriteStatus(t, "FAILED", ErrorData(message))
    /\ xfer' = [xfer EXCEPT ![t].status = "FAILED", ![t].failedAt = step,
                            ![t].returned = "FAILED", ![t].fallback = {}]
    /\ pc' = [pc EXCEPT ![t] = "done"]
    /\ UNCHANGED <<calls, relayAddresses>>

\* the transfer id of the next workflow (uuidv4(): fresh)
NextTransfer(t) == pc[t] = "idle" /\ \A u \in 1..(t - 1) : pc[u] # "idle"

\* initiatePrivateTransfer up to the await of getGasPrice
initiatePrivateTransfer(t, targetChainId, amount, userId) ==
    /\ NextTransfer(t)
    /\ xfer' = [xfer EXCEPT ![t] = [NoTransfer EXCEPT !.kind = "mint", !.chain = targetChainId,
                                       !.amount = amount, !.user = userId,
                                       !.status = "INITIATED"]]
    /\ WriteStatus(t, "INITIATED",
                   Data({"sourceChainId", "targetChainId", "recipient", "amount",
                         "merkleRoot", "timestamp"}))
    /\ calls' = [calls EXCEPT ![t].gas = @ + 1]
    /\ pc' = [pc EXCEPT ![t] = "gas"]
    /\ UNCHANGED <<userPreferences, relayAddresses, clock>>

\* burnForTransfer / lockNativeAsset up to the await of provider.getNetwork()
burnOrLock(t, kind, targetChainId, amount, userId) ==
    /\ NextTransfer(t)
    /\ xfer' = [xfer EXCEPT ![t] = [NoTransfer EXCEPT !.kind = kind, !.chain = targetChainId,
                                       !.amount = amount, !.user = userId,
                                       !.status = "INITIATED"]]
    /\ WriteStatus(t, "INITIATED", Data({"amount", "targetChainId", "timestamp"}))
    /\ calls' = [calls EXCEPT ![t].network = @ + 1]
    /\ pc' = [pc EXCEPT ![t] = "network"]
    /\ UNCHANGED <<userPreferences, relayAddresses, clock>>

\* provider.getNetwork() settles (burn and lock only); then getGasPrice is awaited
getNetworkReturns(t, ok) ==
    /\ pc[t] = "network"
    /\ IF ok
       THEN /\ pc' = [pc EXCEPT ![t] = "gas"]
            /\ calls' = [calls EXCEPT ![t].gas = @ + 1]
            /\ UNCHANGED <<xfer, transactionCache, statusLog, relayAddresses>>
       ELSE Abort(t, "network", "network unavailable")
    /\ UNCHANGED <<userPreferences, clock>>

\* a getGasPrice without the catch block: the failed request fails the transfer
getGasPriceRethrows(t, ok, gasPriceGwei) ==
    /\ pc[t] = "gas"
    /\ IF ok
       THEN /\ xfer' = [xfer EXCEPT ![t].gasPrice = gasPriceGwei,
                                    ![t].level = userPreferences[xfer[t].user],
                                    ![t].user = "none"]
            /\ calls' = [calls EXCEPT ![t].congestion = @ + 1]
            /\ pc' = [pc EXCEPT ![t] = "congestion"]
            /\ UNCHANGED <<transactionCache, statusLog>>
       ELSE /\ WriteStatus(t, "FAILED", ErrorData("gas price unavailable"))
            /\ xfer' = [xfer EXCEPT ![t].status = "FAILED", ![t].failedAt = "gas",
                                    ![t].returned = "FAILED", ![t].fallback = {"gasPrice"}]
            /\ pc' = [pc EXCEPT ![t] = "done"]
            /\ UNCHANGED calls
    /\ UNCHANGED <<userPreferences, relayAddresses, clock>>

\* getGasPrice settles: the oracle's answer, or 30 when the request failed; then
\* getRecommendedPrivacyLevel runs up to the await of getNetworkCongestion
getGasPriceReturns(t, ok, gasPriceGwei) ==
    /\ pc[t] = "gas"
    /\ xfer' = [xfer EXCEPT ![t].gasPrice = IF ok THEN gasPriceGwei ELSE DEFAULT_GAS_PRICE,
                            \* the stored preference is read before the await
                            ![t].level = userPreferences[xfer[t].user],
                            ![t].user = "none",
                            ![t].fallback = IF ok THEN {} ELSE {"gasPrice"}]
    /\ calls' = [calls EXCEPT ![t].congestion = @ + 1]
    /\ pc' = [pc EXCEPT ![t] = "congestion"]
    /\ UNCHANGED <<transactionCache, statusLog, userPreferences, relayAddresses, clock>>

\* a workflow that never asks for the proof
RequestSignatureOnly(t, level) ==
    /\ pc' = [pc EXCEPT ![t] = "sign"]
    /\ calls' = [calls EXCEPT ![t].sign = @ + 1]

\* the leg of initiatePrivateTransfer after the level is known, up to the next await
\* that the level's config asks for: the proof, else the signature
RequestProofOrSignature(t, level) ==
    IF getPrivacyConfig(level).useZKProof
    THEN /\ pc' = [pc EXCEPT ![t] = "proof"]
         /\ calls' = [calls EXCEPT ![t].proof = @ + 1]
    ELSE /\ pc' = [pc EXCEPT ![t] = "sign"]
         /\ calls' = [calls EXCEPT ![t].sign = @ + 1]

\* getNetworkCongestion settles (a cached or fetched value, or 50 when the request
\* failed) and getRecommendedPrivacyLevel returns. A mint then creates the relay
\* address when the config asks for one (createRelayAddress up to the await in
\* notifyOracle); a burn or lock submits its transaction.
getNetworkCongestionReturns(t, ok, congestionLevel) ==
    /\ pc[t] = "congestion"
    /\ LET congestion == IF ok THEN congestionLevel ELSE DEFAULT_CONGESTION
           level == getRecommendedPrivacyLevel(xfer[t].level, xfer[t].chain, xfer[t].amount,
                                               xfer[t].gasPrice, congestion)
       IN  /\ xfer' = [xfer EXCEPT ![t].level = level,
                                   \* the arguments of the level decision are not read again
                                   ![t].gasPrice = 0, ![t].chain = "none", ![t].amount = 0,
                                   ![t].fallback = xfer[t].fallback \cup
                                                    (IF ok THEN {} ELSE {"congestion"})]
           /\ IF xfer[t].kind = "mint"
              THEN IF getPrivacyConfig(level).useRelayAddress
                   THEN /\ relayAddresses' = relayAddresses \cup
                               {[relayId |-> t, expires |-> clock + RELAY_ADDRESS_TTL]}
                        /\ pc' = [pc EXCEPT ![t] = "relay"]
                        /\ calls' = [calls EXCEPT ![t].relay = @ + 1]
                   ELSE /\ RequestProofOrSignature(t, level)
                        /\ UNCHANGED relayAddresses
              ELSE /\ pc' = [pc EXCEPT ![t] = "submit"]
                   /\ calls' = [calls EXCEPT ![t].submit = @ + 1]
                   /\ UNCHANGED relayAddresses
    /\ UNCHANGED <<transactionCache, statusLog, userPreferences, clock>>

\* a notifyOracle that lets the failure of the register-relay request escape
notifyOracleRethrows(t, ok) ==
    /\ pc[t] = "relay"
    /\ IF ok
       THEN /\ xfer' = [xfer EXCEPT ![t].relayId = t, ![t].relayNotified = "ok",
                                    ![t].fallback = {}]
            /\ RequestProofOrSignature(t, xfer[t].level)
            /\ UNCHANGED <<transactionCache, statusLog, relayAddresses>>
       ELSE /\ WriteStatus(t, "FAILED", ErrorData("relay registration failed"))
            /\ xfer' = [xfer EXCEPT ![t].status = "FAILED", ![t].failedAt = "relay",
                                    ![t].relayNotified = "failed", ![t].returned = "FAILED",
                                    ![t].fallback = {}]
            /\ pc' = [pc EXCEPT ![t] = "done"]
            /\ UNCHANGED <<calls, relayAddresses>>
    /\ UNCHANGED <<userPreferences, clock>>

\* notifyOracle settles: a failed register-relay request is caught and logged, and
\* createRelayAddress returns the relay id either way
notifyOracleReturns(t, ok) ==
    /\ pc[t] = "relay"
    /\ xfer' = [xfer EXCEPT ![t].relayId = t,
                            ![t].relayNotified = IF ok THEN "ok" ELSE "failed",
                            ![t].fallback = {}]
    /\ RequestProofOrSignature(t, xfer[t].level)
    /\ UNCHANGED <<transactionCache, statusLog, userPreferences, relayAddresses, clock>>

\* zkProver.generateProof settles
generateProofReturns(t, ok) ==
    /\ pc[t] = "proof"
    /\ IF ok
       THEN /\ xfer' = [xfer EXCEPT ![t].zkProof = TRUE, ![t].status = "PROOF_GENERATED",
                                    ![t].fallback = {}]
            /\ WriteStatus(t, "PROOF_GENERATED",
                           Data({"amount", "timestamp", "merkleRoot", "privacyLevel", "nonce",
                                 "sourceChainId", "targetChainId", "proof"}))
            /\ pc' = [pc EXCEPT ![t] = "sign"]
            /\ calls' = [calls EXCEPT ![t].sign = @ + 1]
            /\ UNCHANGED relayAddresses
       ELSE Abort(t, "proof", "proof generation failed")
    /\ UNCHANGED <<userPreferences, clock>>

\* mpcSigner.signHash settles; on success the mint transaction is submitted
signHashReturns(t, ok) ==
    /\ pc[t] = "sign"
    /\ IF ok
       THEN /\ xfer' = [xfer EXCEPT ![t].signature = TRUE, ![t].status = "SIGNATURE_COMPLETED",
                                    ![t].fallback = {}]
            /\ WriteStatus(t, "SIGNATURE_COMPLETED", Data({"signature"}))
            /\ pc' = [pc EXCEPT ![t] = "submit"]
            /\ calls' = [calls EXCEPT ![t].submit = @ + 1]
            /\ UNCHANGED relayAddresses
       ELSE Abort(t, "sign", "signing failed")
    /\ UNCHANGED <<userPreferences, clock>>

\* verifierContract.mintWithProof / burnToChain / lockNativeAsset settles: the
\* transaction was sent (tx.hash known), or sending it failed
submitReturns(t, ok) ==
    /\ pc[t] = "submit"
    /\ IF ok
       THEN /\ xfer' = [xfer EXCEPT ![t].txHash = TRUE, ![t].status = "BROADCASTED",
                                    ![t].fallback = {}]
            /\ WriteStatus(t, "BROADCASTED",
                           Data(IF xfer[t].kind = "mint" THEN {"txHash"}
                                ELSE {"txHash", "targetTxHash"}))
            /\ pc' = [pc EXCEPT ![t] = "wait"]
            /\ calls' = [calls EXCEPT ![t].wait = @ + 1]
            /\ UNCHANGED relayAddresses
       ELSE Abort(t, "submit", "transaction rejected")
    /\ UNCHANGED <<userPreferences, clock>>

\* a confirmation step that records CONFIRMED before it looks at the receipt
waitRecordsFirst(t, outcome) ==
    /\ pc[t] = "wait"
    /\ IF outcome = "status1"
       THEN /\ xfer' = [xfer EXCEPT ![t].status = "CONFIRMED", ![t].returned = "CONFIRMED"]
            /\ WriteStatus(t, "CONFIRMED", Data({"blockNumber"}))
       ELSE /\ xfer' = [xfer EXCEPT ![t].status = "FAILED", ![t].failedAt = "wait",
                                    ![t].returned = "FAILED"]
            /\ transactionCache' =
                   updateTransactionCache(transactionCache, t, "FAILED",
                                          ErrorData("Transaction failed"), clock)
            /\ statusLog' = [statusLog EXCEPT ![t] = @ \o <<"CONFIRMED", "FAILED">>]
    /\ pc' = [pc EXCEPT ![t] = "done"]
    /\ UNCHANGED <<calls, relayAddresses, userPreferences, clock>>

\* tx.wait(1) settles: a receipt of status 1, a receipt of another status, or an
\* error; then the workflow returns
waitReturns(t, outcome) ==
    /\ pc[t] = "wait"
    /\ IF outcome = "status1"
       THEN /\ xfer' = [xfer EXCEPT ![t].status = "CONFIRMED", ![t].returned = "CONFIRMED"]
            /\ WriteStatus(t, "CONFIRMED", Data({"blockNumber"}))
            /\ pc' = [pc EXCEPT ![t] = "done"]
            /\ UNCHANGED <<calls, relayAddresses>>
       ELSE Abort(t, "wait", IF outcome # "status0" THEN "confirmation wait failed"
                             ELSE IF xfer[t].kind = "mint" THEN "Transaction failed"
                             ELSE IF xfer[t].kind = "burn" THEN "Burn transaction failed"
                             ELSE "Lock transaction failed")
    /\ UNCHANGED <<userPreferences, clock>>

BridgeInit ==
    /\ pc = [t \in Transfers |-> "idle"]
    /\ xfer = [t \in Transfers |-> NoTransfer]
    /\ transactionCache = EmptyMap
    /\ userPreferences = [u \in Users |-> 0]
    /\ relayAddresses = {}
    /\ clock = 0
    /\ statusLog = [t \in Transfers |-> <<>>]
    /\ calls = [t \in Transfers |-> NoCalls]

StartMint ==
    /\ \E t \in Transfers, c \in Chains, a \in Amounts, u \in Users :
          initiatePrivateTransfer(t, c, a, u)
    /\ BridgeFrame
\* burns and locks go to one target chain with one amount: their level decision
\* does not steer the workflow
StartBurnOrLock ==
    /\ \E t \in Transfers, k \in {"burn", "lock"}, c \in {"other"}, a \in {5},
          u \in Users :
          burnOrLock(t, k, c, a, u)
    /\ BridgeFrame
NetworkSettles ==
    /\ \E t \in Transfers, ok \in BOOLEAN : getNetworkReturns(t, ok)
    /\ BridgeFrame
GasPriceSettles ==
    /\ \E t \in Transfers, ok \in BOOLEAN, g \in GasPrices : getGasPriceReturns(t, ok, g)
    /\ BridgeFrame
CongestionSettles ==
    /\ \E t \in Transfers, ok \in BOOLEAN, c \in CongestionLevels :
          getNetworkCongestionReturns(t, ok, c)
    /\ BridgeFrame
RelaySettles ==
    /\ \E t \in Transfers, ok \in BOOLEAN : notifyOracleReturns(t, ok)
    /\ BridgeFrame
ProofSettles ==
    /\ \E t \in Transfers, ok \in BOOLEAN : generateProofReturns(t, ok)
    /\ BridgeFrame
SignatureSettles ==
    /\ \E t \in Transfers, ok \in BOOLEAN : signHashReturns(t, ok)
    /\ BridgeFrame
SubmitSettles ==
    /\ \E t \in Transfers, ok \in BOOLEAN : submitReturns(t, ok)
    /\ BridgeFrame
WaitSettles ==
    /\ \E t \in Transfers, o \in {"status1", "status0", "error"} : waitReturns(t, o)
    /\ BridgeFrame
SetPreference ==
    /\ \E u \in Users, l \in PreferenceInputs : setUserPreference(u, l)
    /\ BridgeFrame

BridgeNext ==
    \/ StartMint \/ StartBurnOrLock \/ NetworkSettles \/ GasPriceSettles
    \/ CongestionSettles \/ RelaySettles \/ ProofSettles \/ SignatureSettles
    \/ SubmitSettles \/ WaitSettles \/ SetPreference

\* every request a workflow awaits is eventually answered or fails
BridgeProgress(t) ==
    /\ \/ \E ok \in BOOLEAN : getNetworkReturns(t, ok)
       \/ \E ok \in BOOLEAN, g \in GasPrices : getGasPriceReturns(t, ok, g)
       \/ \E ok \in BOOLEAN, c \in CongestionLevels : getNetworkCongestionReturns(t, ok, c)
       \/ \E ok \in BOOLEAN : notifyOracleReturns(t, ok)
       \/ \E ok \in BOOLEAN : generateProofReturns(t, ok)
       \/ \E ok \in BOOLEAN : signHashReturns(t, ok)
       \/ \E ok \in BOOLEAN : submitReturns(t, ok)
       \/ \E o \in {"status1", "status0", "error"} : waitReturns(t, o)
    /\ BridgeFrame

(***************************************************************************)
(* PrivacyCrossChainVerifier and the ECC library (CrossChainVerifier.sol)  *)
(***************************************************************************)
\* uint256 public constant MAX_DELAY = 10 minutes
MAX_DELAY == 600
\* the literal `24 hours` of the expiry test
PROOF_LIFETIME == 86400
MIN_PRIVACY_LEVEL == 1
MAX_PRIVACY_LEVEL == 4
\* require(inputs.length >= 5, ...)
MIN_INPUTS == 5
\* block.timestamp of the first block explored (Unix seconds)
DEPLOY_TIME == 1000000

ZERO_ADDRESS == "0x0"
Addresses == {ZERO_ADDRESS, "alice"}
\* the accounts of the token: these and one more holder
Holders == Addresses \cup {"bob"}
Callers == {"oracle", "mallory"}
\* bytes32(0), which the orchestrator sends when no relay address is used, and another id
RelayIds == {0, 1}

\* A uint256 of the ECC library by its size, which is all that the library's checked
\* arithmetic tells apart: below 2^85, below 2^128, below Q, or at least Q.
\* The library's own addmod and mulmod compute (a + b) % m and (a * b) % m in
\* checked uint256 arithmetic, so a product of 2^256 or more panics.
Sizes == {"lt2p85", "lt2p128", "ltQ", "geQ"}

\* isOnCurve(x, y): false when a coordinate is at least Q; else y*y panics for
\* y >= 2^128, and x*x or x*(x*x % Q) panics for x >= 2^85.4; for the remaining
\* x and y both sides are below Q, so the test is y^2 = x^3 + 7 over the
\* integers, which no pair of integers satisfies.
isOnCurve(x, y) ==
    IF x = "geQ" \/ y = "geQ" THEN "false"
    ELSE IF y = "ltQ" THEN "Panic"
    ELSE IF x # "lt2p85" THEN "Panic"
    ELSE "false"

\* the key the deployment passes to the constructor: the coordinates GX and GY
MPC_PUBKEY_X == "ltQ"
MPC_PUBKEY_Y == "ltQ"

\* (v, r, s) by the tests of verifySchnorr: r = 0, s = 0 or s >= Q; v not 2 or 3; else
SignatureForms == {"zeroOrLarge", "badRecoveryId", "wellFormed"}

\* a verifySchnorr without its test of r and s
verifySchnorrSkipsParameters(pubX, pubY, sig) ==
    IF sig = "badRecoveryId" THEN "InvalidRecoveryId"
    ELSE IF isOnCurve(pubX, pubY) = "Panic" THEN "Panic"
    ELSE "InvalidPoint"

\* ECC.verifySchnorr: the revert it ends in, or "true" / "false"
verifySchnorr(pubX, pubY, sig) ==
    IF sig = "zeroOrLarge" THEN "InvalidSignatureParameters"
    ELSE IF sig = "badRecoveryId" THEN "InvalidRecoveryId"
    ELSE IF isOnCurve(pubX, pubY) = "Panic" THEN "Panic"
    ELSE IF isOnCurve(pubX, pubY) = "false" THEN "InvalidPoint"
    ELSE \* recoverPoint applies the same test to the point it recovers
         "InvalidPoint"

\* ECC.verifySchnorr called on its own with the public key of a key pair, of
\* any size a point of secp256k1 can have (none has x < 2^85 and y < 2^128);
\* relation tells how (v, r, s) and the message were made: "valid" by the
\* signing relation for the key (then r and s are in range and v is the parity
\* tag), or from such a signature by changing r, s or the message
VerifySchnorr ==
    /\ \E pubX \in Sizes, pubY \in Sizes, sig \in SignatureForms,
          relation \in {"valid", "rChanged", "sChanged", "messageChanged"} :
          /\ ~(pubX = "lt2p85" /\ pubY \in {"lt2p85", "lt2p128"})
          /\ relation \in {"valid", "messageChanged"} => sig = "wellFormed"
          /\ schnorrCall' = [made |-> TRUE, pubX |-> pubX, pubY |-> pubY, sig |-> sig,
                             relation |-> relation,
                             result |-> verifySchnorr(pubX, pubY, sig)]
    /\ UNCHANGED <<signerVars, bridgeVars, verifierVars, vaultVars, cacheCalls, policyCall,
                   lastRequest, messages, eccCall, congestionVars>>

\* ECC.modinv(a, m) in the checked unsigned arithmetic of the compiler: the
\* subtraction x - q * y panics when q * y > x (the values explored are far
\* below 2^256, so no product or sum overflows)
modinv(a, m) ==
    LET RECURSIVE Loop(_, _, _, _)
        Loop(g, r, x, y) ==
            IF r = 0
            THEN IF g # 1 THEN [status |-> "ModInverseDoesNotExist", value |-> 0]
                 ELSE [status |-> "ok", value |-> (x + m) % m]
            ELSE LET q == g \div r
                 IN  IF q * y > x THEN [status |-> "Panic", value |-> 0]
                     ELSE Loop(r, g % r, y, x - q * y)
    IN  Loop(m, a, 0, 1)

\* ECC.sqrt(x), with the modulus of its final test as the parameter Q (the
\* library's Q has 256 bits; the routine does not depend on its value)
sqrt(x, Q) ==
    LET RECURSIVE Loop(_, _)
        Loop(z, y) == IF z < y THEN Loop((x \div z + z) \div 2, z) ELSE y
    IN  IF x = 0 THEN [status |-> "ok", value |-> 0]
        ELSE LET y == Loop((x + 1) \div 2, x)
             IN  IF (y * y) % Q # x THEN [status |-> "NoSquareRootExists", value |-> 0]
                 ELSE [status |-> "ok", value |-> y]

\* modinv called on its own for every modulus up to MaxModulus and every
\* residue, and sqrt for every residue of primes congruent to 3 modulo 4
EccCall ==
    /\ \/ \E m \in 2..MaxModulus, a \in 0..(MaxModulus - 1) :
             /\ a < m
             /\ eccCall' = [op |-> "modinv", x |-> a, m |-> m, result |-> modinv(a, m)]
       \/ \E Q \in {7, 11, 19, 23}, x \in 0..22 :
             /\ x < Q
             /\ eccCall' = [op |-> "sqrt", x |-> x, m |-> Q, result |-> sqrt(x, Q)]
    /\ UNCHANGED <<signerVars, bridgeVars, verifierVars, vaultVars, cacheCalls, policyCall,
                   lastRequest, messages, schnorrCall, congestionVars>>

SchnorrNext == VerifySchnorr \/ EccCall

\* timestamps of requests: around both ends of the window of the first block
Timestamps ==
    {DEPLOY_TIME + d : d \in {0 - PROOF_LIFETIME - 1, 0 - PROOF_LIFETIME, 0,
                              MAX_DELAY, MAX_DELAY + 1}}

\* The arguments of mintWithProof; inputs = [amount, timestamp, merkleRoot,
\* privacyLevel, nonce] is given by its length and its first four elements.
\* Well-formed tier-4 requests, for any source chain and timestamp with one
\* relay id, and at the time of deployment with the other:
WellFormedRequests ==
    [sourceChain : {"eth", "bsc"}, proof : {"p1"}, len : {MIN_INPUTS}, amount : {5},
     timestamp : Timestamps, merkleRoot : {1}, privacyLevel : {MAX_PRIVACY_LEVEL},
     relayId : {1}, sig : {"wellFormed"},
     quantumSignature : {"q1"}, quantumPublicKey : {"k1"}]
    \cup [sourceChain : {"eth"}, proof : {"p1"}, len : {MIN_INPUTS}, amount : {5},
          timestamp : {DEPLOY_TIME}, merkleRoot : {1}, privacyLevel : {MAX_PRIVACY_LEVEL},
          relayId : {0}, sig : {"wellFormed"},
          quantumSignature : {"q1"}, quantumPublicKey : {"k1"}]

\* requests of one source chain with one of the checked inputs off
BadInputRequests ==
    {[m EXCEPT !.len = MIN_INPUTS - 1, !.sourceChain = "eth"] : m \in WellFormedRequests}
    \cup {[m EXCEPT !.amount = 0, !.sourceChain = "eth"] : m \in WellFormedRequests}
    \cup {[m EXCEPT !.merkleRoot = 0, !.sourceChain = "eth"] : m \in WellFormedRequests}
    \cup {[m EXCEPT !.privacyLevel = l, !.sourceChain = "eth"] :
              m \in WellFormedRequests, l \in {0, MAX_PRIVACY_LEVEL + 1}}

\* requests that take the classical signature path: a lower tier, or a quantum
\* field left empty; with every form of (v, r, s), at the time of deployment
ClassicalRequests ==
    {[m EXCEPT !.privacyLevel = 1, !.sig = f, !.timestamp = DEPLOY_TIME] :
        m \in WellFormedRequests, f \in SignatureForms}
    \cup {[m EXCEPT !.quantumSignature = "", !.sig = f, !.timestamp = DEPLOY_TIME] :
              m \in WellFormedRequests, f \in SignatureForms}
    \cup {[m EXCEPT !.quantumPublicKey = "", !.timestamp = DEPLOY_TIME] :
              m \in WellFormedRequests}

MintRequests == WellFormedRequests \cup BadInputRequests \cup ClassicalRequests

\* keccak256(abi.encode(a, b, c, inputs, relayId, quantumSignature)); the hash is
\* taken to be collision-free, so it is the tuple itself
ProofHash(m) ==
    <<m.proof, m.len, m.amount, m.timestamp, m.merkleRoot, m.privacyLevel,
      m.relayId, m.quantumSignature>>

\* a ledger that never looks a proof hash up
NeverProcessed(proofHash) == FALSE

\* processedProofs[proofHash]
ProofProcessed(proofHash) == proofHash \in processedProofs

\* a window that excludes its two ends
FreshnessExclusive(timestamp, now) ==
    IF timestamp >= now + MAX_DELAY THEN "FutureProof"
    ELSE IF now < PROOF_LIFETIME THEN "Panic"
    ELSE IF timestamp <= now - PROOF_LIFETIME THEN "ExpiredProof"
    ELSE "pass"

\* the two timestamp tests; block.timestamp - 24 hours is a checked subtraction
Freshness(timestamp, now) ==
    IF timestamp > now + MAX_DELAY THEN "FutureProof"
    ELSE IF now < PROOF_LIFETIME THEN "Panic"
    ELSE IF timestamp < now - PROOF_LIFETIME THEN "ExpiredProof"
    ELSE "pass"

\* a signature test that asks the post-quantum verifier at tier 4 whatever the
\* quantum fields hold
SignatureStepByTier(m, pqValid) ==
    IF m.privacyLevel = MAX_PRIVACY_LEVEL
    THEN IF pqValid THEN "pass" ELSE "InvalidSignature"
    ELSE LET schnorr == verifySchnorr(MPC_PUBKEY_X, MPC_PUBKEY_Y, m.sig)
         IN  IF schnorr = "true" THEN "pass"
             ELSE IF schnorr = "false" THEN "InvalidSignature"
             ELSE schnorr

\* the signature test: the post-quantum verifier's answer at tier 4 when both
\* quantum fields are non-empty, else ECC.verifySchnorr on the deployed key
SignatureStep(m, pqValid) ==
    IF /\ m.privacyLevel = MAX_PRIVACY_LEVEL
       /\ m.quantumSignature # "" /\ m.quantumPublicKey # ""
    THEN IF pqValid THEN "pass" ELSE "InvalidSignature"
    ELSE LET schnorr == verifySchnorr(MPC_PUBKEY_X, MPC_PUBKEY_Y, m.sig)
         IN  IF schnorr = "true" THEN "pass"
             ELSE IF schnorr = "false" THEN "InvalidSignature"
             ELSE schnorr

\* a mintWithProof that never asks the proof verifier
MintOutcomeSkipsProof(m, pqValid, zkValid) ==
    IF paused THEN "Paused"
    ELSE IF m.len < MIN_INPUTS THEN "InvalidInputLength"
    ELSE IF m.amount = 0 THEN "InvalidAmount"
    ELSE IF m.merkleRoot = 0 THEN "InvalidRoot"
    ELSE IF m.privacyLevel < MIN_PRIVACY_LEVEL \/ m.privacyLevel > MAX_PRIVACY_LEVEL
         THEN "InvalidPrivacyLevel"
    ELSE IF Freshness(m.timestamp, blockTimestamp) # "pass"
         THEN Freshness(m.timestamp, blockTimestamp)
    ELSE IF relayAddressMap[m.relayId] = ZERO_ADDRESS THEN "InvalidRelayAddress"
    ELSE IF SignatureStep(m, pqValid) # "pass" THEN SignatureStep(m, pqValid)
    ELSE IF ProofProcessed(ProofHash(m)) THEN "ProofAlreadyProcessed"
    ELSE "ok"

\* the outcome of mintWithProof: the revert it ends in, or "ok"
MintOutcome(m, pqValid, zkValid) ==
    IF paused THEN "Paused"
    ELSE IF m.len < MIN_INPUTS THEN "InvalidInputLength"
    ELSE IF m.amount = 0 THEN "InvalidAmount"
    ELSE IF m.merkleRoot = 0 THEN "InvalidRoot"
    ELSE IF m.privacyLevel < MIN_PRIVACY_LEVEL \/ m.privacyLevel > MAX_PRIVACY_LEVEL
         THEN "InvalidPrivacyLevel"
    ELSE IF Freshness(m.timestamp, blockTimestamp) # "pass"
         THEN Freshness(m.timestamp, blockTimestamp)
    ELSE IF relayAddressMap[m.relayId] = ZERO_ADDRESS THEN "InvalidRelayAddress"
    ELSE IF SignatureStep(m, pqValid) # "pass" THEN SignatureStep(m, pqValid)
    ELSE IF m.privacyLevel > 1 /\ ~zkValid THEN "InvalidZKProof"
    ELSE IF ProofProcessed(ProofHash(m)) THEN "ProofAlreadyProcessed"
    ELSE "ok"

NoMint ==
    [op |-> "none", result |-> "none", replay |-> FALSE, timestamp |-> 0, at |-> 0,
     rootEvent |-> FALSE, merkleRoot |-> 0, recipient |-> ZERO_ADDRESS]

\* a mint that credits the account that sent the transaction (taken to be alice)
\* instead of the address bound to the relay id
mintWithProofCreditsSender(m, pqValid, zkValid) ==
    /\ mintCalls < MaxMintCalls
    /\ mintCalls' = mintCalls + 1
    /\ LET outcome == MintOutcome(m, pqValid, zkValid)
       IN  /\ lastMint' = [op |-> "mint", result |-> outcome,
                           replay |-> ProofHash(m) \in accepted,
                           timestamp |-> m.timestamp, at |-> blockTimestamp,
                           rootEvent |-> outcome = "ok" /\ m.merkleRoot # currentRoot,
                           merkleRoot |-> m.merkleRoot,
                           recipient |-> relayAddressMap[m.relayId]]
           /\ IF outcome = "ok"
              THEN /\ processedProofs' = processedProofs \cup {ProofHash(m)}
                   /\ currentRoot' = m.merkleRoot
                   /\ balanceOf' = [balanceOf EXCEPT !["alice"] = @ + m.amount]
                   /\ totalSupply' = totalSupply + m.amount
                   /\ accepted' = accepted \cup {ProofHash(m)}
                   /\ mintCount' = mintCount + 1
              ELSE UNCHANGED <<processedProofs, currentRoot, balanceOf, totalSupply,
                               accepted, mintCount>>
    /\ UNCHANGED <<paused, relayAddressMap, blockTimestamp>>

\* a mint that stores the root supplied without the notification
mintWithProofSilentRoot(m, pqValid, zkValid) ==
    /\ mintCalls < MaxMintCalls
    /\ mintCalls' = mintCalls + 1
    /\ LET outcome == MintOutcome(m, pqValid, zkValid)
           recipient == relayAddressMap[m.relayId]
       IN  /\ lastMint' = [op |-> "mint", result |-> outcome,
                           replay |-> ProofHash(m) \in accepted,
                           timestamp |-> m.timestamp, at |-> blockTimestamp,
                           rootEvent |-> FALSE, merkleRoot |-> m.merkleRoot,
                           recipient |-> recipient]
           /\ IF outcome = "ok"
              THEN /\ processedProofs' = processedProofs \cup {ProofHash(m)}
                   /\ currentRoot' = m.merkleRoot
                   /\ balanceOf' = [balanceOf EXCEPT ![recipient] = @ + m.amount]
                   /\ totalSupply' = totalSupply + m.amount
                   /\ accepted' = accepted \cup {ProofHash(m)}
                   /\ mintCount' = mintCount + 1
              ELSE UNCHANGED <<processedProofs, currentRoot, balanceOf, totalSupply,
                               accepted, mintCount>>
    /\ UNCHANGED <<paused, relayAddressMap, blockTimestamp>>

\* mintWithProof, one transaction; pqValid and zkValid are the answers of the two
\* external verifier contracts; rootEvent: MerkleRootUpdated was emitted
mintWithProof(m, pqValid, zkValid) ==
    /\ mintCalls < MaxMintCalls
    /\ mintCalls' = mintCalls + 1
    /\ LET outcome == MintOutcome(m, pqValid, zkValid)
           recipient == relayAddressMap[m.relayId]
       IN  /\ lastMint' = [op |-> "mint", result |-> outcome,
                           replay |-> ProofHash(m) \in accepted,
                           timestamp |-> m.timestamp, at |-> blockTimestamp,
                           rootEvent |-> outcome = "ok" /\ m.merkleRoot # currentRoot,
                           merkleRoot |-> m.merkleRoot,
                           recipient |-> relayAddressMap[m.relayId]]
           /\ IF outcome = "ok"
              THEN /\ processedProofs' = processedProofs \cup {ProofHash(m)}
                   /\ currentRoot' = IF m.merkleRoot # currentRoot THEN m.merkleRoot
                                     ELSE currentRoot
                   /\ balanceOf' = [balanceOf EXCEPT ![recipient] = @ + m.amount]
                   /\ totalSupply' = totalSupply + m.amount
                   /\ accepted' = accepted \cup {ProofHash(m)}
                   /\ mintCount' = mintCount + 1
              ELSE UNCHANGED <<processedProofs, currentRoot, balanceOf, totalSupply,
                               accepted, mintCount>>
    /\ UNCHANGED <<paused, relayAddressMap, blockTimestamp>>

\* registerRelayAddress: reverts (changes nothing) for a caller that is no
\* authorized oracle or an expiry that is not in the future
registerRelayAddress(caller, relayId, targetAddress, expires) ==
    /\ IF caller \in authorizedOracles /\ expires > blockTimestamp
       THEN relayAddressMap' = [relayAddressMap EXCEPT ![relayId] = targetAddress]
       ELSE UNCHANGED relayAddressMap
    /\ UNCHANGED <<paused, currentRoot, processedProofs, balanceOf, totalSupply,
                   blockTimestamp, accepted, mintCount, mintCalls, lastMint>>

\* pause() and unpause(), by the owner
pause ==
    /\ ~paused
    /\ paused' = TRUE
    /\ UNCHANGED <<currentRoot, processedProofs, relayAddressMap, balanceOf, totalSupply,
                   blockTimestamp, accepted, mintCount, mintCalls, lastMint>>

unpause ==
    /\ paused
    /\ paused' = FALSE
    /\ UNCHANGED <<currentRoot, processedProofs, relayAddressMap, balanceOf, totalSupply,
                   blockTimestamp, accepted, mintCount, mintCalls, lastMint>>

\* the next block is one second later
NextBlock ==
    /\ blockTimestamp - DEPLOY_TIME < MaxSeconds
    /\ blockTimestamp' = blockTimestamp + 1
    /\ UNCHANGED <<paused, currentRoot, processedProofs, relayAddressMap, balanceOf,
                   totalSupply, accepted, mintCount, mintCalls, lastMint>>

VerifierInit ==
    /\ paused = FALSE
    /\ currentRoot = 0
    /\ processedProofs = {}
    /\ relayAddressMap = [id \in RelayIds |-> ZERO_ADDRESS]
    /\ balanceOf = [a \in Holders |-> 0]
    /\ totalSupply = 0
    /\ blockTimestamp = DEPLOY_TIME
    /\ accepted = {}
    /\ mintCount = 0
    /\ mintCalls = 0
    /\ lastMint = NoMint

\* the answers of the two external verifiers are varied for the requests that get
\* as far as consulting them (the others revert before, whatever the answers)
Mint ==
    /\ \E m \in MintRequests, pqValid \in BOOLEAN, zkValid \in BOOLEAN :
          /\ m \in WellFormedRequests \/ (pqValid /\ zkValid)
          /\ mintWithProof(m, pqValid, zkValid)
    /\ VerifierFrame
RegisterRelay ==
    /\ \E caller \in Callers, id \in RelayIds, target \in Addresses,
          expires \in {blockTimestamp, blockTimestamp + 1} :
          registerRelayAddress(caller, id, target, expires)
    /\ VerifierFrame
Pause == pause /\ VerifierFrame
Unpause == unpause /\ VerifierFrame
Tick == NextBlock /\ VerifierFrame

VerifierNext == Mint \/ RegisterRelay \/ Pause \/ Unpause \/ Tick

(***************************************************************************)
(* mintWithProof examined call by call                                     *)
(***************************************************************************)
\* the requests examined: a well-formed tier-4 request with both quantum fields,
\* that request with another amount or one checked input off, and requests of every tier and form
\* of (v, r, s) with and without the quantum fields
ExaminedRequests ==
    LET good == [sourceChain |-> "eth", proof |-> "p1", len |-> MIN_INPUTS, amount |-> 5,
                 timestamp |-> DEPLOY_TIME, merkleRoot |-> 1,
                 privacyLevel |-> MAX_PRIVACY_LEVEL, relayId |-> 1, sig |-> "wellFormed",
                 quantumSignature |-> "q1", quantumPublicKey |-> "k1"]
    IN  {[good EXCEPT !.len = MIN_INPUTS - 1],
         [good EXCEPT !.amount = 7],
         [good EXCEPT !.amount = 0],
         [good EXCEPT !.merkleRoot = 0],
         [good EXCEPT !.privacyLevel = MAX_PRIVACY_LEVEL + 1],
         [good EXCEPT !.timestamp = DEPLOY_TIME - PROOF_LIFETIME - 1],
         [good EXCEPT !.timestamp = DEPLOY_TIME + MAX_DELAY + 1],
         [good EXCEPT !.relayId = 0]}
        \cup {[good EXCEPT !.privacyLevel = l, !.sig = f, !.quantumSignature = q[1],
                            !.quantumPublicKey = q[2]] :
                  l \in {MIN_PRIVACY_LEVEL, MAX_PRIVACY_LEVEL - 1, MAX_PRIVACY_LEVEL},
                  f \in SignatureForms,
                  q \in {<<"q1", "k1">>, <<"", "k1">>, <<"q1", "">>}}

\* one mintWithProof transaction, its arguments kept
ExamineMint ==
    /\ \E m \in ExaminedRequests, pqValid \in BOOLEAN, zkValid \in BOOLEAN :
          /\ mintWithProof(m, pqValid, zkValid)
          /\ lastRequest' = [examined |-> TRUE, m |-> m, pqValid |-> pqValid,
                             zkValid |-> zkValid]
    /\ UNCHANGED <<signerVars, bridgeVars, vaultVars, cacheCalls, policyCall, messages, schnorrCall, eccCall, congestionVars>>

\* one mintWithProof transaction, its arguments kept, of a tier-4 request that
\* carries the signer group's post-quantum signature "q1" under its key "k1",
\* of that request with another proof (a, b, c), of one with a signature
\* and a public key of the caller's own and no (v, r, s) of the group, or of
\* the request the orchestrator builds at a tier without relay address: the
\* group's (v, r, s), no quantum fields and the empty relay id
ExamineAuthorization ==
    /\ \E proof \in {"p1", "p2"}, own \in BOOLEAN, level \in {Basic, Standard, Maximum},
          pqValid \in BOOLEAN, zkValid \in BOOLEAN :
          LET relay == getPrivacyConfig(level).useRelayAddress
              m == [sourceChain |-> "eth", proof |-> proof, len |-> MIN_INPUTS, amount |-> 5,
                    timestamp |-> DEPLOY_TIME, merkleRoot |-> 1,
                    privacyLevel |-> level, relayId |-> IF relay THEN 1 ELSE 0,
                    sig |-> IF own THEN "zeroOrLarge" ELSE "wellFormed",
                    quantumSignature |-> IF ~relay THEN "" ELSE IF own THEN "qOwn" ELSE "q1",
                    quantumPublicKey |-> IF ~relay THEN "" ELSE IF own THEN "kOwn" ELSE "k1"]
          IN  /\ relay \/ (proof = "p1" /\ ~own /\ pqValid /\ zkValid)
              /\ mintWithProof(m, pqValid, zkValid)
              /\ lastRequest' = [examined |-> TRUE, m |-> m, pqValid |-> pqValid,
                                 zkValid |-> zkValid]
    /\ UNCHANGED <<signerVars, bridgeVars, vaultVars, cacheCalls, policyCall, messages, schnorrCall, eccCall, congestionVars>>

\* the oracle binds relay id 1, or fails to
BindRelay ==
    /\ \E caller \in Callers, target \in Holders :
          registerRelayAddress(caller, 1, target, blockTimestamp + 1)
    /\ VerifierFrame

MintNext == ExamineMint \/ BindRelay \/ Pause \/ Unpause

(***************************************************************************)
(* The signed message, off and on the ledger                               *)
(***************************************************************************)
\* keccak256 is taken to be collision-free: a hash is given by the packed bytes
\* hashed, and the packed bytes by the sequence of the values packed (the tag is
\* a fixed string, an address takes 20 bytes, a uint256 or bytes32 takes 32)

\* generateMessageHash: solidityKeccak256 of the eight values
generateMessageHash(sourceChainId, recipient, amount, timestamp, merkleRoot, privacyLevel, relayId) ==
    <<"PRIVACY_BRIDGE", sourceChainId, recipient, amount, timestamp, merkleRoot,
      privacyLevel, relayId>>

\* keccak256(abi.encodePacked("PRIVACY_BRIDGE", sourceChain, recipient, inputs)):
\* every element of inputs is packed, in order
LedgerMessage(sourceChain, recipient, inputs) ==
    <<"PRIVACY_BRIDGE", sourceChain, recipient>> \o inputs

\* one mint-directed transfer: the orchestrator hashes its message and has it
\* signed, then submits mintWithProof with the inputs [amount, timestamp,
\* merkleRoot, privacyLevel, nonce], where the ledger resolves the relay id
\* (to the address bound) and builds the message it checks the signature over;
\* of the two nonces one is also a relay id, the other is not
BuildMessages ==
    /\ \E sourceChainId \in {"eth", "bsc"}, recipient \in {"alice", "bob"},
          amount \in {5, 1000}, timestamp \in {DEPLOY_TIME, DEPLOY_TIME + 1},
          merkleRoot \in {1, 2}, privacyLevel \in Basic..Maximum, relayId \in RelayIds,
          nonce \in {1, 7}, bound \in {"alice", "bob"} :
          messages' =
              [built |-> TRUE,
               orchestrator |-> generateMessageHash(sourceChainId, recipient, amount,
                                                    timestamp, merkleRoot, privacyLevel,
                                                    relayId),
               ledger |-> LedgerMessage(sourceChainId, bound,
                                        <<amount, timestamp, merkleRoot, privacyLevel,
                                          nonce>>)]
    /\ UNCHANGED <<signerVars, bridgeVars, verifierVars, vaultVars, cacheCalls, policyCall,
                   lastRequest, schnorrCall, eccCall, congestionVars>>

MessageNext == BuildMessages

(***************************************************************************)
(* PrivacyCrossChainVerifier: burn, lock, withdraw                         *)
(***************************************************************************)
\* a call of one of the four functions is recorded, with msg.sender, the
\* amount or value and the tier it carried, and the bytes32 transaction hash
\* handed to lockNativeAsset and withdrawLockedAsset (0 for the other two)
RecordTx(op, result, caller, amount, privacyLevel, txHash) ==
    /\ txCalls < MaxLedgerCalls
    /\ txCalls' = txCalls + 1
    /\ lastTx' = [op |-> op, result |-> result, caller |-> caller, amount |-> amount,
                  privacyLevel |-> privacyLevel, txHash |-> txHash]

\* the outcome of registerRelayAddress: the revert it ends in, or "ok"
RegisterOutcome(caller, expires) ==
    IF caller \notin authorizedOracles THEN "UnauthorizedOracle"
    ELSE IF expires <= blockTimestamp THEN "RelayAddressExpired"
    ELSE "ok"

\* the outcome of burnToChain; _burn reverts when the balance is too small
BurnOutcome(sender, amount, privacyLevel) ==
    IF paused THEN "Paused"
    ELSE IF amount = 0 THEN "InvalidAmount"
    ELSE IF privacyLevel < MIN_PRIVACY_LEVEL \/ privacyLevel > MAX_PRIVACY_LEVEL
         THEN "InvalidPrivacyLevel"
    ELSE IF balanceOf[sender] < amount THEN "BurnExceedsBalance"
    ELSE "ok"

\* a burn that does not look at the balance of the sender
burnToChainUnchecked(sender, amount, privacyLevel) ==
    /\ RecordTx("burnToChain",
                IF BurnOutcome(sender, amount, privacyLevel) = "BurnExceedsBalance" THEN "ok"
                ELSE BurnOutcome(sender, amount, privacyLevel),
                sender, amount, privacyLevel, 0)
    /\ IF BurnOutcome(sender, amount, privacyLevel) \in {"ok", "BurnExceedsBalance"}
       THEN /\ balanceOf' = [balanceOf EXCEPT ![sender] = @ - amount]
            /\ totalSupply' = totalSupply - amount
       ELSE UNCHANGED <<balanceOf, totalSupply>>
    /\ UNCHANGED <<paused, currentRoot, processedProofs, relayAddressMap, blockTimestamp,
                   accepted, mintCount, mintCalls, lastMint, nativeBalance>>

\* burnToChain, one transaction
burnToChain(sender, amount, privacyLevel) ==
    /\ RecordTx("burnToChain", BurnOutcome(sender, amount, privacyLevel), sender, amount,
                privacyLevel, 0)
    /\ IF BurnOutcome(sender, amount, privacyLevel) = "ok"
       THEN /\ balanceOf' = [balanceOf EXCEPT ![sender] = @ - amount]
            /\ totalSupply' = totalSupply - amount
       ELSE UNCHANGED <<balanceOf, totalSupply>>
    /\ UNCHANGED <<paused, currentRoot, processedProofs, relayAddressMap, blockTimestamp,
                   accepted, mintCount, mintCalls, lastMint, nativeBalance>>

\* the outcome of lockNativeAsset
LockOutcome(value, privacyLevel) ==
    IF paused THEN "Paused"
    ELSE IF value = 0 THEN "InvalidAmount"
    ELSE IF privacyLevel < MIN_PRIVACY_LEVEL \/ privacyLevel > MAX_PRIVACY_LEVEL
         THEN "InvalidPrivacyLevel"
    ELSE "ok"

\* a lock whose msg.value stays with the contract when the call reverts
lockNativeAssetKeepsValue(value, privacyLevel, targetTxHash) ==
    /\ RecordTx("lockNativeAsset", LockOutcome(value, privacyLevel), "alice", value,
                privacyLevel, targetTxHash)
    /\ nativeBalance' = nativeBalance + value
    /\ UNCHANGED verifierVars

\* lockNativeAsset, one transaction: msg.value is credited to the contract
\* when the call starts and goes back to the sender when it reverts
lockNativeAsset(value, privacyLevel, targetTxHash) ==
    /\ RecordTx("lockNativeAsset", LockOutcome(value, privacyLevel), "alice", value,
                privacyLevel, targetTxHash)
    /\ nativeBalance' = IF LockOutcome(value, privacyLevel) = "ok"
                        THEN nativeBalance + value
                        ELSE nativeBalance
    /\ UNCHANGED verifierVars

\* the outcome of withdrawLockedAsset; accepts: the recipient takes the payment
WithdrawOutcome(caller, amount, accepts) ==
    IF caller \notin authorizedOracles THEN "UnauthorizedOracle"
    ELSE IF amount = 0 \/ nativeBalance < amount THEN "InvalidAmount"
    ELSE IF ~accepts THEN "TransferFailed"
    ELSE "ok"

\* a withdrawal without the onlyAuthorizedOracle modifier
withdrawLockedAssetByAnyone(caller, amount, accepts, txHash) ==
    /\ RecordTx("withdrawLockedAsset", WithdrawOutcome("oracle", amount, accepts), caller,
                amount, 0, txHash)
    /\ nativeBalance' = IF WithdrawOutcome("oracle", amount, accepts) = "ok"
                        THEN nativeBalance - amount
                        ELSE nativeBalance
    /\ UNCHANGED verifierVars

\* withdrawLockedAsset, one transaction; txHash is carried and never read
withdrawLockedAsset(caller, amount, accepts, txHash) ==
    /\ RecordTx("withdrawLockedAsset", WithdrawOutcome(caller, amount, accepts), caller,
                amount, 0, txHash)
    /\ nativeBalance' = IF WithdrawOutcome(caller, amount, accepts) = "ok"
                        THEN nativeBalance - amount
                        ELSE nativeBalance
    /\ UNCHANGED verifierVars

\* the mint requests sent along with these calls: a well-formed one at the time
\* of the block, and that request with one thing off
LedgerMintRequests ==
    LET good == [sourceChain |-> "eth", proof |-> "p1", len |-> MIN_INPUTS, amount |-> 5,
                 timestamp |-> DEPLOY_TIME, merkleRoot |-> 1,
                 privacyLevel |-> MAX_PRIVACY_LEVEL, relayId |-> 1, sig |-> "wellFormed",
                 quantumSignature |-> "q1", quantumPublicKey |-> "k1"]
    IN  {good,
         [good EXCEPT !.amount = 0],
         [good EXCEPT !.relayId = 0],
         [good EXCEPT !.quantumSignature = ""]}

VaultInit ==
    /\ nativeBalance = 0
    /\ txCalls = 0
    /\ lastTx = [op |-> "none", result |-> "none", caller |-> "none", amount |-> 0,
                 privacyLevel |-> 0, txHash |-> 0]
    /\ relayExpiry = [id \in RelayIds |-> 0]
    /\ authorizedOracles = {"oracle"}
    /\ userPrivacyPreferences = [a \in Holders |-> 0]

LedgerMint ==
    /\ \E m \in LedgerMintRequests, pqValid \in BOOLEAN, zkValid \in BOOLEAN :
          mintWithProof(m, pqValid, zkValid)
    /\ VerifierFrame
LedgerRegisterRelay ==
    /\ \E caller \in Callers, target \in Holders,
          expires \in {blockTimestamp, blockTimestamp + 1} :
          /\ RecordTx("registerRelayAddress", RegisterOutcome(caller, expires), caller, 0, 0, 0)
          /\ registerRelayAddress(caller, 1, target, expires)
          /\ relayExpiry' = IF RegisterOutcome(caller, expires) = "ok"
                            THEN [relayExpiry EXCEPT ![1] = expires]
                            ELSE relayExpiry
    /\ UNCHANGED <<nativeBalance, authorizedOracles, userPrivacyPreferences>>
    /\ LedgerFrame
Burn ==
    /\ \E sender \in {"alice", "bob"}, amount \in {0, 5, 6},
          privacyLevel \in {MIN_PRIVACY_LEVEL, MAX_PRIVACY_LEVEL + 1} :
          burnToChain(sender, amount, privacyLevel)
    /\ UNCHANGED <<relayExpiry, authorizedOracles, userPrivacyPreferences>>
    /\ LedgerFrame
\* every lock names the transaction hash 1
Lock ==
    /\ \E value \in {0, 1}, privacyLevel \in {MIN_PRIVACY_LEVEL - 1, MAX_PRIVACY_LEVEL} :
          lockNativeAsset(value, privacyLevel, 1)
    /\ UNCHANGED <<relayExpiry, authorizedOracles, userPrivacyPreferences>>
    /\ LedgerFrame
\* withdrawals name the hash of the locks, or (the oracle paying 1 to a
\* recipient that accepts) a hash that no lock named
Withdraw ==
    /\ \E caller \in Callers, amount \in {0, 1}, accepts \in BOOLEAN, txHash \in {1, 2} :
          /\ txHash = 1 \/ (caller = "oracle" /\ amount = 1 /\ accepts)
          /\ withdrawLockedAsset(caller, amount, accepts, txHash)
    /\ UNCHANGED <<relayExpiry, authorizedOracles, userPrivacyPreferences>>
    /\ LedgerFrame

\* setPrivacyPreference: reverts with InvalidPrivacyLevel (and changes nothing)
\* for a level outside 1..4, else stores the level for msg.sender
setPrivacyPreference ==
    /\ \E sender \in {"alice"}, level \in {MIN_PRIVACY_LEVEL - 1, MAX_PRIVACY_LEVEL - 1} :
          userPrivacyPreferences' =
              IF level < MIN_PRIVACY_LEVEL \/ level > MAX_PRIVACY_LEVEL
              THEN userPrivacyPreferences
              ELSE [userPrivacyPreferences EXCEPT ![sender] = level]
    /\ UNCHANGED <<nativeBalance, txCalls, lastTx, relayExpiry, authorizedOracles,
                   verifierVars>>
    /\ LedgerFrame

\* addAuthorizedOracle and removeAuthorizedOracle, called by the owner (a call
\* by anyone else reverts and changes nothing)
addAuthorizedOracle ==
    /\ \E oracle \in Callers : authorizedOracles' = authorizedOracles \cup {oracle}
    /\ UNCHANGED <<nativeBalance, txCalls, lastTx, relayExpiry, userPrivacyPreferences,
                   verifierVars>>
    /\ LedgerFrame
removeAuthorizedOracle ==
    /\ \E oracle \in Callers : authorizedOracles' = authorizedOracles \ {oracle}
    /\ UNCHANGED <<nativeBalance, txCalls, lastTx, relayExpiry, userPrivacyPreferences,
                   verifierVars>>
    /\ LedgerFrame

\* the next block of the ledger is one second later
LedgerTick ==
    /\ blockTimestamp - DEPLOY_TIME < MaxLedgerSeconds
    /\ blockTimestamp' = blockTimestamp + 1
    /\ UNCHANGED <<paused, currentRoot, processedProofs, relayAddressMap, balanceOf,
                   totalSupply, accepted, mintCount, mintCalls, lastMint>>
    /\ VerifierFrame

LedgerNext ==
    LedgerMint \/ LedgerRegisterRelay \/ Burn \/ Lock \/ Withdraw \/ Pause \/ Unpause

\* registrations and mints as the ledger time passes
RelayNext == LedgerRegisterRelay \/ LedgerMint \/ LedgerTick

\* mints of the ledger's well-formed request, of that request with another
\* root and of that request with another amount
RootMint ==
    /\ \E m \in {r \in LedgerMintRequests : r.amount > 0 /\ r.relayId = 1 /\ r.quantumSignature # ""}, pqValid \in BOOLEAN, zkValid \in BOOLEAN :
          \E amount \in {5, 7}, root \in {1, 2} :
              /\ amount = 5 \/ root = 1
              /\ mintWithProof([m EXCEPT !.amount = amount, !.merkleRoot = root], pqValid, zkValid)
    /\ VerifierFrame
\* the functions of the ledger that users and relayers call
RootNext ==
    RootMint \/ LedgerRegisterRelay \/ Burn \/ Lock \/ setPrivacyPreference

\* native value locked and withdrawn while the owner changes the oracles
VaultNext == Lock \/ Withdraw \/ addAuthorizedOracle \/ removeAuthorizedOracle

SignerInit ==
    /\ pendingShares = [h \in Hashes |-> <<>>]
    /\ signatureListeners = [h \in Hashes |-> NoListener]
    /\ inFlight = [h \in Hashes |-> 0]
    /\ aggregationsIssued = [h \in Hashes |-> 0]
    /\ invocations = [h \in Hashes |-> <<>>]
    /\ registrations = 0
    /\ shareCalls = 0
    /\ lastCall = NoCall
    /\ keyShare = <<"null", 0>>
    /\ postQuantumKeyPair = "null"
    /\ isTeeInitialized = FALSE
    /\ signerCalls = [inits |-> 0, signs |-> 0, destroys |-> 0, phase |-> "idle",
                      before |-> <<"null", 0>>, finallyRan |-> FALSE, requests |-> 0,
                      result |-> "none", last |-> "none"]

\* init(sharePath): USE_POST_QUANTUM is true whatever the environment says
\* (config.ts: ... === 'true' || true), so the key pair is always generated; the
\* key share is generated only when no sharePath is given (loading is commented
\* out); with TEE_ENABLED the init-tee request answers success, answers
\* failure (the flag is stored, then init throws) or fails (init throws)
init ==
    /\ signerCalls.inits < MaxInitCalls
    /\ \E sharePath \in BOOLEAN, tee \in {"success", "refused", "failed"} :
          /\ postQuantumKeyPair' = "pair"
          /\ keyShare' = IF sharePath THEN keyShare
                         ELSE <<"secret", signerCalls.inits + 1>>
          /\ isTeeInitialized' = IF TEE_ENABLED /\ tee # "failed" THEN tee = "success"
                                 ELSE isTeeInitialized
          /\ signerCalls' = [signerCalls EXCEPT !.inits = @ + 1, !.last = "init"]
    /\ UNCHANGED <<pendingShares, signatureListeners, inFlight, aggregationsIssued,
                   invocations, registrations, shareCalls, lastCall, TEE_ENABLED>>
    /\ UNCHANGED <<bridgeVars, verifierVars, vaultVars, callVars, congestionVars>>

\* signHash up to its first await, or to its end when it throws before: the
\* test of keyShare, then signWithTEE (throws when the enclave is not
\* initialised) or signWithECDSA (the partial signature is computed with
\* createHash, which the file does not import: hashes tells whether the build
\* supplies it); without a post-quantum key pair the promise is returned
\* without await, so the finally block runs before the request settles.
\* The finally block: crypto.randomFillSync fills a copy of the share, zeroize
\* clears the share itself, and this.keyShare keeps pointing at the cleared buffer.
signHashBegins ==
    /\ signerCalls.phase = "idle"
    /\ signerCalls.signs < MaxSignCalls
    /\ \E hashes \in BOOLEAN :
          LET throws == IF TEE_ENABLED THEN ~isTeeInitialized ELSE ~hashes
              awaited == postQuantumKeyPair # "null"
              finally == throws \/ ~awaited
              call == [signerCalls EXCEPT !.signs = @ + 1, !.before = keyShare,
                                          !.last = "signHash"]
          IN  IF keyShare[1] = "null"
              THEN /\ signerCalls' = [call EXCEPT !.result = "KeyShareNotInitialized",
                                                  !.requests = 0, !.finallyRan = FALSE]
                   /\ UNCHANGED keyShare
              ELSE /\ signerCalls' =
                          [call EXCEPT !.phase = IF throws THEN "idle" ELSE "awaiting",
                                       !.result = IF throws THEN "Error" ELSE "pending",
                                       !.requests = IF throws THEN 0 ELSE 1,
                                       !.finallyRan = finally]
                   /\ keyShare' = IF finally /\ ~TEE_ENABLED THEN <<"zeros", 0>>
                                  ELSE keyShare
    /\ UNCHANGED <<pendingShares, signatureListeners, inFlight, aggregationsIssued,
                   invocations, registrations, shareCalls, lastCall, postQuantumKeyPair,
                   isTeeInitialized, TEE_ENABLED>>
    /\ UNCHANGED <<bridgeVars, verifierVars, vaultVars, callVars, congestionVars>>

\* a signHash whose finally block is skipped when the request settles
signHashSettlesKeepsShare ==
    /\ signerCalls.phase = "awaiting"
    /\ \E ok \in BOOLEAN :
          signerCalls' = [signerCalls EXCEPT !.phase = "idle", !.finallyRan = TRUE,
                                             !.last = "signHash",
                                             !.result = IF ok THEN "signature" ELSE "Error"]
    /\ UNCHANGED <<pendingShares, signatureListeners, inFlight, aggregationsIssued,
                   invocations, registrations, shareCalls, lastCall, keyShare,
                   postQuantumKeyPair, isTeeInitialized, TEE_ENABLED>>
    /\ UNCHANGED <<bridgeVars, verifierVars, vaultVars, callVars, congestionVars>>

\* the partial-sign or tee-sign request settles (ok: it answered, and the
\* answer of the enclave passed verifyTEEResponse) and signHash returns or
\* throws; the finally block runs now unless it ran before
signHashSettles ==
    /\ signerCalls.phase = "awaiting"
    /\ \E ok \in BOOLEAN :
          signerCalls' = [signerCalls EXCEPT !.phase = "idle", !.finallyRan = TRUE,
                                             !.last = "signHash",
                                             !.result = IF ok THEN "signature" ELSE "Error"]
    /\ keyShare' = IF ~signerCalls.finallyRan /\ ~TEE_ENABLED /\ keyShare[1] # "null"
                   THEN <<"zeros", 0>>
                   ELSE keyShare
    /\ UNCHANGED <<pendingShares, signatureListeners, inFlight, aggregationsIssued,
                   invocations, registrations, shareCalls, lastCall, postQuantumKeyPair,
                   isTeeInitialized, TEE_ENABLED>>
    /\ UNCHANGED <<bridgeVars, verifierVars, vaultVars, callVars, congestionVars>>

\* a destroy that clears the key share but keeps the reference to it
destroyKeepsReference ==
    /\ signerCalls.destroys < MaxDestroyCalls
    /\ keyShare' = IF keyShare[1] # "null" THEN <<"zeros", 0>> ELSE keyShare
    /\ postQuantumKeyPair' = "null"
    /\ signerCalls' = [signerCalls EXCEPT !.destroys = @ + 1, !.last = "destroy"]
    /\ UNCHANGED <<pendingShares, signatureListeners, inFlight, aggregationsIssued,
                   invocations, registrations, shareCalls, lastCall, isTeeInitialized,
                   TEE_ENABLED>>
    /\ UNCHANGED <<bridgeVars, verifierVars, vaultVars, callVars, congestionVars>>

\* destroy(): both secrets are cleared and released
destroy ==
    /\ signerCalls.destroys < MaxDestroyCalls
    /\ keyShare' = <<"null", 0>>
    /\ postQuantumKeyPair' = "null"
    /\ signerCalls' = [signerCalls EXCEPT !.destroys = @ + 1, !.last = "destroy"]
    /\ UNCHANGED <<pendingShares, signatureListeners, inFlight, aggregationsIssued,
                   invocations, registrations, shareCalls, lastCall, isTeeInitialized,
                   TEE_ENABLED>>
    /\ UNCHANGED <<bridgeVars, verifierVars, vaultVars, callVars, congestionVars>>

\* the signing node: initialised, asked to sign, destroyed
KeyNext == init \/ signHashBegins \/ signHashSettles \/ destroy

ShareArrives ==
    /\ \E h \in Hashes, s \in ShareBytes, i \in Indices : handleSignatureShare(h, s, i)
    /\ SignerFrame
AggregationSettles ==
    /\ \E h \in Hashes, ok \in BOOLEAN : aggregateSignaturesReturns(h, ok)
    /\ SignerFrame
Register ==
    /\ \E h \in Hashes, throws \in BOOLEAN : onSignatureReady(h, throws)
    /\ SignerFrame

SignerNext == ShareArrives \/ AggregationSettles \/ Register

(***************************************************************************)
(* updateTransactionCache on a cache that holds CACHE_LIMIT entries        *)
(***************************************************************************)
NoPolicyCall == [count |-> 0, phase |-> "none", userId |-> "none", chainId |-> "none", amount |-> 0,
                 gasPrice |-> 0, preference |-> 0, congestion |-> 0, level |-> 0]

\* no call has been made yet
CallsInit ==
    /\ cacheCalls = [count |-> 0, transferId |-> 0]
    /\ policyCall = NoPolicyCall
    /\ lastRequest =
           [examined |-> FALSE,
            m |-> [sourceChain |-> "", proof |-> "", len |-> 0, amount |-> 0, timestamp |-> 0,
                   merkleRoot |-> 0, privacyLevel |-> 0, relayId |-> 0, sig |-> "",
                   quantumSignature |-> "", quantumPublicKey |-> ""],
            pqValid |-> FALSE, zkValid |-> FALSE]
    /\ messages = [built |-> FALSE, orchestrator |-> <<>>, ledger |-> <<>>]
    /\ schnorrCall = [made |-> FALSE, pubX |-> "", pubY |-> "", sig |-> "", relation |-> "",
                      result |-> ""]
    /\ eccCall = [op |-> "none", x |-> 0, m |-> 0, result |-> [status |-> "none", value |-> 0]]
    /\ networkCongestionCache = [c \in {} |-> 0]
    /\ lastCongestionCheck = 0
    /\ congestionCall = [count |-> 0, chainId |-> "", cached |-> FALSE, value |-> 0, now |-> 0,
                         fetchedAt |-> [c \in {} |-> 0]]

\* the cache after transfers 1..CACHE_LIMIT were recorded at time 0 and the
\* transfers in refreshed had a later status recorded at time 1
FullCache(refreshed) ==
    [order |-> [i \in 1..CACHE_LIMIT |-> i],
     entry |-> [k \in 1..CACHE_LIMIT |->
                  IF k \in refreshed
                  THEN [status |-> "BROADCASTED",
                        data |-> [keys |-> {"txHash", "updatedAt"}, error |-> ""],
                        timestamp |-> 1]
                  ELSE [status |-> "INITIATED",
                        data |-> [keys |-> {"amount", "targetChainId", "timestamp", "updatedAt"},
                                  error |-> ""],
                        timestamp |-> 0]]]

\* one call of updateTransactionCache; the transfer ids written: three cached at
\* the start (the first of them can have been evicted by then) and the id of the
\* next new transfer
CacheWrite ==
    /\ cacheCalls.count < MaxCacheWrites
    /\ \E transferId \in {1, 2, CACHE_LIMIT, CACHE_LIMIT + cacheCalls.count + 1} :
          /\ transactionCache' = updateTransactionCache(transactionCache, transferId, "CONFIRMED",
                                                        Data({"blockNumber"}), clock)
          /\ cacheCalls' = [count |-> cacheCalls.count + 1, transferId |-> transferId]
    /\ UNCHANGED <<pc, xfer, userPreferences, relayAddresses, clock, statusLog, calls>>
    /\ UNCHANGED <<signerVars, verifierVars, vaultVars, policyCall, lastRequest, messages, schnorrCall, eccCall, congestionVars>>

\* Date.now() advances
CacheTick ==
    /\ clock < 1 + MaxCacheTicks
    /\ clock' = clock + 1
    /\ UNCHANGED <<pc, xfer, transactionCache, userPreferences, relayAddresses, statusLog, calls>>
    /\ UNCHANGED <<signerVars, verifierVars, vaultVars, callVars, congestionVars>>

CacheNext == CacheWrite \/ CacheTick

CacheInit ==
    /\ SignerInit
    /\ VaultInit
    /\ VerifierInit
    /\ CallsInit
    /\ TEE_ENABLED = FALSE
    /\ pc = [t \in Transfers |-> "idle"]
    /\ xfer = [t \in Transfers |-> NoTransfer]
    /\ \E refreshed \in {{}, {1}, {1, 2}, 1..CACHE_LIMIT} :
          transactionCache = FullCache(refreshed)
    /\ userPreferences = [u \in Users |-> 0]
    /\ relayAddresses = {}
    /\ clock = 1
    /\ statusLog = [t \in Transfers |-> <<>>]
    /\ calls = [t \in Transfers |-> NoCalls]

(***************************************************************************)
(* PrivacyPolicyManager called on its own                                  *)
(***************************************************************************)
\* the callers of the policy manager; the first of them stores preferences
PolicyUsers == {"alice", "bob"}

\* setUserPreference called by a user of the policy manager, with the four levels
\* of the enum and two numbers outside
PolicySetPreference ==
    /\ \E userId \in {"alice"}, level \in 0..5 : setUserPreference(userId, level)
    /\ UNCHANGED <<signerVars, verifierVars, vaultVars, callVars, congestionVars>>

\* getRecommendedPrivacyLevel up to the await of getNetworkCongestion: the
\* stored preference has been read; amounts (units of 0.1 ETH) below, next to and
\* at each amount threshold, gas prices (Gwei) of 0, at the threshold of Maximum,
\* next above the thresholds of Enhanced and of Standard, and above them all
RecommendBegins ==
    /\ policyCall.phase # "awaiting"
    /\ policyCall.count < MaxPolicyCalls
    /\ \E userId \in PolicyUsers, chainId \in Chains,
          amount \in {0, 10, 99, 100, 999, 1000},
          gasPrice \in {0, 10, 21, 31, 60} :
          policyCall' = [NoPolicyCall EXCEPT !.count = policyCall.count + 1,
                                             !.phase = "awaiting", !.userId = userId,
                                             !.chainId = chainId, !.amount = amount,
                                             !.gasPrice = gasPrice,
                                             !.preference = userPreferences[userId]]
    /\ UNCHANGED <<bridgeVars, signerVars, verifierVars, vaultVars, cacheCalls, lastRequest, messages, schnorrCall, eccCall, congestionVars>>

\* getNetworkCongestion settles (the answer clamped by Math.min(100, Math.max(0,
\* congestionLevel)), or 50 when the request failed) and
\* getRecommendedPrivacyLevel returns; the answers: below 0, around 30 and 70,
\* above 100
RecommendReturns ==
    /\ policyCall.phase = "awaiting"
    /\ \E ok \in BOOLEAN, congestionLevel \in {0 - 5, 20, 29, 30, 70, 71, 150} :
          LET congestion == IF ok THEN Min2(100, Max2(0, congestionLevel))
                            ELSE DEFAULT_CONGESTION
          IN  policyCall' =
                  [policyCall EXCEPT !.phase = "returned", !.congestion = congestion,
                                     !.level = getRecommendedPrivacyLevel(
                                                   policyCall.preference, policyCall.chainId,
                                                   policyCall.amount, policyCall.gasPrice,
                                                   congestion)]
    /\ UNCHANGED <<bridgeVars, signerVars, verifierVars, vaultVars, cacheCalls, lastRequest, messages, schnorrCall, eccCall, congestionVars>>

\* getNetworkCongestion(chainId), the request settling before the next lookup
\* begins; ok: the oracle answered, with congestionLevel. fetchedAt records, for
\* each chain cached, the time its value was fetched.
getNetworkCongestion(chainId, ok, congestionLevel) ==
    LET now == clock
        hit == now - lastCongestionCheck < 600000 /\ chainId \in DOMAIN networkCongestionCache
        congestion == Min2(100, Max2(0, congestionLevel))
        Put(map, value) == [c \in DOMAIN map \cup {chainId} |->
                               IF c = chainId THEN value ELSE map[c]]
    IN  /\ congestionCall.count < MaxCongestionCalls
        /\ IF hit
           THEN /\ congestionCall' = [congestionCall EXCEPT
                                         !.count = @ + 1, !.chainId = chainId, !.cached = TRUE,
                                         !.value = networkCongestionCache[chainId],
                                         !.now = now]
                /\ UNCHANGED <<networkCongestionCache, lastCongestionCheck>>
           ELSE IF ok
           THEN /\ networkCongestionCache' = Put(networkCongestionCache, congestion)
                /\ lastCongestionCheck' = now
                /\ congestionCall' = [count |-> congestionCall.count + 1, chainId |-> chainId,
                                      cached |-> FALSE, value |-> congestion, now |-> now,
                                      fetchedAt |-> Put(congestionCall.fetchedAt, now)]
           ELSE /\ congestionCall' = [congestionCall EXCEPT
                                         !.count = @ + 1, !.chainId = chainId, !.cached = FALSE,
                                         !.value = DEFAULT_CONGESTION, !.now = now]
                /\ UNCHANGED <<networkCongestionCache, lastCongestionCheck>>

\* lookups for two chains, with an oracle that answers or fails
CongestionLookup ==
    /\ \E chainId \in {"binance", "moca"}, ok \in BOOLEAN, congestionLevel \in {20, 150} :
          getNetworkCongestion(chainId, ok, congestionLevel)
    /\ UNCHANGED <<signerVars, bridgeVars, verifierVars, vaultVars, callVars>>

\* Date.now() advances by four minutes
CongestionTick ==
    /\ clock < MaxCongestionTicks * 240000
    /\ clock' = clock + 240000
    /\ UNCHANGED <<pc, xfer, transactionCache, userPreferences, relayAddresses, statusLog, calls>>
    /\ UNCHANGED <<signerVars, verifierVars, vaultVars, callVars, congestionVars>>

CongestionNext == CongestionLookup \/ CongestionTick

PolicyNext == PolicySetPreference \/ RecommendBegins \/ RecommendReturns

PolicyInit ==
    /\ SignerInit
    /\ VaultInit
    /\ VerifierInit
    /\ CallsInit
    /\ TEE_ENABLED = FALSE
    /\ pc = [t \in Transfers |-> "idle"]
    /\ xfer = [t \in Transfers |-> NoTransfer]
    /\ transactionCache = EmptyMap
    /\ userPreferences = [u \in PolicyUsers |-> 0]
    /\ relayAddresses = {}
    /\ clock = 0
    /\ statusLog = [t \in Transfers |-> <<>>]
    /\ calls = [t \in Transfers |-> NoCalls]

\* the state after the constructors of the components have run
Init ==
    /\ SignerInit
    /\ VaultInit
    /\ BridgeInit
    /\ VerifierInit
    /\ CallsInit
    /\ TEE_ENABLED = FALSE

\* that state in a process started with either value of TEE_ENABLED
KeyInit ==
    /\ SignerInit
    /\ VaultInit
    /\ BridgeInit
    /\ VerifierInit
    /\ CallsInit
    /\ TEE_ENABLED \in BOOLEAN

SpecSigner == Init /\ [][SignerNext]_vars

\* the awaited aggregate-signatures request settles (answer or failure) and the
\* continuation of handleSignatureShare runs; no share has to arrive
SpecSignerFair == SpecSigner /\ WF_vars(AggregationSettles)

SpecBridge == Init /\ [][BridgeNext]_vars

SpecBridgeFair ==
    SpecBridge /\ \A t \in Transfers : WF_vars(BridgeProgress(t))

SpecVerifier == Init /\ [][VerifierNext]_vars

SpecCache == CacheInit /\ [][CacheNext]_vars

SpecPolicy == PolicyInit /\ [][PolicyNext]_vars

SpecLedger == Init /\ [][LedgerNext]_vars

SpecMint == Init /\ [][MintNext]_vars

SpecRelay == Init /\ [][RelayNext]_vars

SpecRoot == Init /\ [][RootNext]_vars

SpecKey == KeyInit /\ [][KeyNext]_vars

SpecCongestion == Init /\ [][CongestionNext]_vars

SpecAuthorization == Init /\ [][ExamineAuthorization \/ BindRelay]_vars

SpecSchnorr == Init /\ [][SchnorrNext]_vars

SpecVault == Init /\ [][VaultNext]_vars

SpecMessage == Init /\ [][MessageNext]_vars

(***************************************************************************)
(* Claims about the coordinator (checked under SpecSigner)                 *)
(***************************************************************************)
Occurrences(seq, x) == Cardinality({k \in 1..Len(seq) : seq[k] = x})

\* C1: for every message hash, under every interleaving of handleSignatureShare
\* calls, the aggregation request is sent to the signer network at most once.
C1_AggregationAtMostOnce == \A h \in Hashes : aggregationsIssued[h] <= 1

\* C2: a callback registered for a hash is invoked exactly once: never a second
\* time however many shares arrive at or beyond the threshold, and a successful
\* aggregation skips the invocation only when no callback is registered.
C2_CallbackExactlyOnce ==
    \A h \in Hashes :
        /\ \A id \in 1..registrations : Occurrences(invocations[h], id) <= 1
        /\ (lastCall.op = "aggregated" /\ lastCall.hash = h /\ lastCall.result = "noListener")
               => signatureListeners[h] = NoListener

\* C3: a handleSignatureShare call for a (hash, index) whose share is already
\* accumulated leaves the accumulation of the hash as it was (same count), and
\* after any accepted call exactly one share of that index is accumulated.
C3_IdempotentIngestion ==
    [][(shareCalls' = shareCalls + 1 /\ lastCall'.result # "InvalidNodeIndex")
         => /\ CountIndex(pendingShares'[lastCall'.hash], lastCall'.index) = 1
            /\ HasIndex(pendingShares[lastCall'.hash], lastCall'.index)
                  => Len(pendingShares'[lastCall'.hash]) = Len(pendingShares[lastCall'.hash])
            /\ \A h \in Hashes \ {lastCall'.hash} : pendingShares'[h] = pendingShares[h]]_vars

\* C3 witness: the same (hash, index) was handed in a second time while the
\* first share was still accumulated
C3_Witness ==
    /\ lastCall.op = "share" /\ lastCall.dup
    /\ CountIndex(pendingShares[lastCall.hash], lastCall.index) = 1

(***************************************************************************)
(* Claims about the ledger contract (checked under SpecVerifier)           *)
(***************************************************************************)
\* C4: a mintWithProof call whose (a, b, c, inputs, relayId, quantumSignature)
\* was minted before never succeeds and changes no balance and no record; a call
\* is rejected with ProofAlreadyProcessed only when its tuple was minted before,
\* so the first call that passes the other checks succeeds, and it records one
\* new fingerprint; recorded fingerprints are never removed, and the number of
\* successful mints equals the number of recorded fingerprints.
C4_ReplayProtection ==
    /\ [](mintCount = Cardinality(processedProofs))
    /\ [][/\ processedProofs \subseteq processedProofs'
          /\ mintCalls' = mintCalls + 1 =>
                /\ lastMint'.replay =>
                       /\ lastMint'.result # "ok"
                       /\ UNCHANGED <<processedProofs, balanceOf, totalSupply, currentRoot>>
                /\ lastMint'.result = "ProofAlreadyProcessed" => lastMint'.replay
                /\ lastMint'.result = "ok" =>
                       /\ Cardinality(processedProofs') = Cardinality(processedProofs) + 1
                       /\ totalSupply' > totalSupply]_vars

\* C4 witness: a tuple that was minted once was handed in again and rejected
C4_Witness ==
    /\ lastMint.replay /\ lastMint.result = "ProofAlreadyProcessed"
    /\ mintCount = 1 /\ mintCalls = 2

\* the call got as far as the timestamp tests
ReachedFreshness(result) ==
    result \notin {"Paused", "InvalidInputLength", "InvalidAmount", "InvalidRoot",
                   "InvalidPrivacyLevel"}

\* C5: a mintWithProof call that reaches the timestamp tests at ledger time now
\* reverts with FutureProof exactly when timestamp > now + 10 minutes and with
\* ExpiredProof exactly when timestamp < now - 24 hours; for every timestamp from
\* now - 24 hours to now + 10 minutes, both included, it passes them.
C5_FreshnessWindow ==
    (lastMint.op = "mint" /\ ReachedFreshness(lastMint.result)) =>
        /\ lastMint.result = "FutureProof" <=> lastMint.timestamp > lastMint.at + 10 * 60
        /\ lastMint.result = "ExpiredProof"
               <=> lastMint.timestamp < lastMint.at - 24 * 60 * 60

\* C5 witness: a mint succeeded with a timestamp exactly 10 minutes ahead of the ledger
C5_Witness ==
    /\ lastMint.op = "mint" /\ lastMint.result = "ok"
    /\ lastMint.timestamp = lastMint.at + 10 * 60

(***************************************************************************)
(* Claims about the transfer workflows (checked under SpecBridge)          *)
(***************************************************************************)
InLog(t, status) == \E k \in 1..Len(statusLog[t]) : statusLog[t][k] = status

\* the order INITIATED, [PROOF_GENERATED], SIGNATURE_COMPLETED, BROADCASTED,
\* CONFIRMED | FAILED, with FAILED after any non-terminal status
FullOrderStep(a, b) ==
    \/ a = "INITIATED" /\ b \in {"PROOF_GENERATED", "SIGNATURE_COMPLETED", "FAILED"}
    \/ a = "PROOF_GENERATED" /\ b \in {"SIGNATURE_COMPLETED", "FAILED"}
    \/ a = "SIGNATURE_COMPLETED" /\ b \in {"BROADCASTED", "FAILED"}
    \/ a = "BROADCASTED" /\ b \in {"CONFIRMED", "FAILED"}

\* the order of a workflow that has no proof and no signature step
ShortOrderStep(a, b) ==
    \/ a = "INITIATED" /\ b \in {"BROADCASTED", "FAILED"}
    \/ a = "BROADCASTED" /\ b \in {"CONFIRMED", "FAILED"}

FollowsOrder(log, Step(_, _)) ==
    /\ Len(log) > 0 => log[1] = "INITIATED"
    /\ \A k \in 1..(Len(log) - 1) : Step(log[k], log[k + 1])

\* C6 as stated: the statuses written for a transfer of any of the three
\* workflows follow INITIATED, optionally PROOF_GENERATED, SIGNATURE_COMPLETED,
\* BROADCASTED, then CONFIRMED or FAILED, without skipping or revisiting one.
C6_StatusOrderAllWorkflows ==
    \A t \in Transfers : FollowsOrder(statusLog[t], FullOrderStep)

\* C6 amended: a transfer of initiatePrivateTransfer follows the full order; a
\* transfer of burnForTransfer or lockNativeAsset follows INITIATED, BROADCASTED,
\* then CONFIRMED or FAILED and never records PROOF_GENERATED or
\* SIGNATURE_COMPLETED; in all three FAILED may follow any non-terminal status,
\* nothing is written after CONFIRMED or FAILED, and the cache entry of the
\* transfer holds the status written last.
C6_StatusOrder ==
    \A t \in Transfers :
        /\ xfer[t].kind = "mint" => FollowsOrder(statusLog[t], FullOrderStep)
        /\ xfer[t].kind \in {"burn", "lock"} => FollowsOrder(statusLog[t], ShortOrderStep)
        /\ (xfer[t].kind = "none") = (statusLog[t] = <<>>)
        /\ (statusLog[t] # <<>> /\ MapHas(transactionCache, t))
               => transactionCache.entry[t].status = statusLog[t][Len(statusLog[t])]

\* C6 witness: a burn that was confirmed, having recorded three statuses
C6_Witness ==
    \E t \in Transfers :
        /\ xfer[t].kind = "burn"
        /\ statusLog[t] = <<"INITIATED", "BROADCASTED", "CONFIRMED">>

\* C7: in a mint-directed transfer PROOF_GENERATED is recorded only when the
\* selected tier's config has useZKProof, and once the workflow has passed the
\* proof stage (the signature is requested) it is recorded exactly when the config
\* has useZKProof; the mint transaction is submitted only after the signature was
\* obtained and SIGNATURE_COMPLETED recorded, and after the proof when the tier
\* requires one; BROADCASTED is recorded only after the submission returned a
\* transaction reference.
C7_ProofSignatureBeforeSubmit ==
    \A t \in Transfers :
        xfer[t].kind = "mint" =>
            /\ InLog(t, "PROOF_GENERATED") => getPrivacyConfig(xfer[t].level).useZKProof
            /\ calls[t].sign > 0 =>
                   (InLog(t, "PROOF_GENERATED") <=> getPrivacyConfig(xfer[t].level).useZKProof)
            /\ calls[t].submit > 0 =>
                   /\ xfer[t].signature /\ InLog(t, "SIGNATURE_COMPLETED")
                   /\ getPrivacyConfig(xfer[t].level).useZKProof
                          => xfer[t].zkProof /\ InLog(t, "PROOF_GENERATED")
            /\ InLog(t, "BROADCASTED") => xfer[t].txHash /\ calls[t].submit = 1

\* C7 witness: a mint of a tier with useZKProof that was broadcast
C7_Witness ==
    \E t \in Transfers :
        /\ xfer[t].kind = "mint" /\ getPrivacyConfig(xfer[t].level).useZKProof
        /\ InLog(t, "PROOF_GENERATED") /\ InLog(t, "BROADCASTED")

\* the workflow of t returned a terminal status that its cache entry records
ReturnedTerminal(t) ==
    /\ xfer[t].returned \in {"CONFIRMED", "FAILED"}
    /\ MapHas(transactionCache, t)
    /\ transactionCache.entry[t].status = xfer[t].returned

\* C8: when every collaborator call eventually returns or fails, every call of
\* initiatePrivateTransfer, burnForTransfer and lockNativeAsset eventually
\* returns, and what it returns is CONFIRMED or FAILED, the status its cache
\* entry records; it never returns a non-terminal status.
C8_Terminates ==
    \A t \in Transfers :
        /\ [](pc[t] = "done" => ReturnedTerminal(t))
        /\ [](pc[t] # "done" => xfer[t].returned = "none")
        /\ (pc[t] # "idle") ~> (pc[t] = "done")

\* C8 witness: a lock workflow that returned CONFIRMED
C8_Witness ==
    \E t \in Transfers :
        pc[t] = "done" /\ xfer[t].kind = "lock" /\ xfer[t].returned = "CONFIRMED"

\* the collaborator requests that come after a step of the mint workflow
LaterCalls(t, step) ==
    IF step = "proof" THEN calls[t].sign + calls[t].submit + calls[t].wait
    ELSE IF step = "sign" THEN calls[t].submit + calls[t].wait
    ELSE calls[t].wait

\* C9: when proof generation, signing or the submission of the mint transaction
\* fails, the transfer is FAILED with the error message in its cache entry, the
\* workflow has returned, no later step was started (no mint transaction after a
\* proof or signature failure), and the failed step was requested once (no retry).
C9_FailureAborts ==
    \A t \in Transfers :
        (xfer[t].kind = "mint" /\ xfer[t].failedAt \in {"proof", "sign", "submit"}) =>
            /\ xfer[t].status = "FAILED" /\ pc[t] = "done"
            /\ MapHas(transactionCache, t)
            /\ transactionCache.entry[t].status = "FAILED"
            /\ "error" \in transactionCache.entry[t].data.keys
            /\ transactionCache.entry[t].data.error # ""
            /\ LaterCalls(t, xfer[t].failedAt) = 0
            /\ calls[t][xfer[t].failedAt] = 1
            /\ statusLog[t][Len(statusLog[t])] = "FAILED"

\* C9 witness: the signing of a mint failed after its proof was generated
C9_Witness ==
    \E t \in Transfers :
        /\ xfer[t].kind = "mint" /\ xfer[t].failedAt = "sign"
        /\ InLog(t, "PROOF_GENERATED")

AfterLevelDecision == {"relay", "proof", "sign", "submit"}

\* C11: a failed gas-price request makes the workflow go on with 30 Gwei, and a
\* failed congestion request makes the level decision go on with congestion 50,
\* which adjusts nothing (the level is the stored preference, or the base level
\* after the gas adjustment); neither failure writes FAILED: the workflow is at
\* its next step with the status it had.
C11_LookupFailureContinues ==
    /\ [](\A t \in Transfers :
            /\ xfer[t].fallback # {} =>
                  /\ xfer[t].status = "INITIATED"
                  /\ ~InLog(t, "FAILED")
                  /\ xfer[t].failedAt = "none"
            /\ xfer[t].fallback = {"gasPrice"} /\ pc[t] = "congestion" =>
                  xfer[t].gasPrice = 30
            /\ "congestion" \in xfer[t].fallback => pc[t] \in AfterLevelDecision
            /\ "gasPrice" \in xfer[t].fallback => pc[t] \in AfterLevelDecision \cup {"congestion"})
    /\ [][\A t \in Transfers :
            "congestion" \in xfer'[t].fallback /\ pc[t] = "congestion" =>
                xfer'[t].level =
                    IF xfer[t].level # 0 THEN xfer[t].level
                    ELSE GasAdjusted(BaseLevel(xfer[t].chain, xfer[t].amount), xfer[t].gasPrice)]_vars

\* both lookups of a mint without a stored preference failed, and the workflow
\* is at its next step with the level decided from 30 Gwei and congestion 50
C11_Witness ==
    \E t \in Transfers :
        /\ xfer[t].fallback = {"gasPrice", "congestion"}
        /\ xfer[t].kind = "mint"
        /\ pc[t] \in AfterLevelDecision
        /\ xfer[t].level = Basic
        /\ xfer[t].status = "INITIATED"
(***************************************************************************)
(* The transfer cache                                                      *)
(***************************************************************************)
CacheKeys(map) == DOMAIN map.entry

\* C12: after every updateTransactionCache the cache holds at most 1000 entries
\* and holds the id written; writing an id the cache does not hold into a cache
\* of 1000 entries removes exactly one entry, whose timestamp is the least of
\* the cache; writing an id the cache holds removes nothing.
C12_CacheBounded ==
    /\ [](Len(transactionCache.order) <= 1000)
    /\ [][cacheCalls'.count # cacheCalls.count =>
            LET before == transactionCache
                after == transactionCache'
                id == cacheCalls'.transferId
            IN  /\ id \in CacheKeys(after)
                /\ id \in CacheKeys(before) => CacheKeys(after) = CacheKeys(before)
                /\ id \notin CacheKeys(before) /\ Cardinality(CacheKeys(before)) = 1000 =>
                      \E k \in CacheKeys(before) :
                          /\ CacheKeys(after) = (CacheKeys(before) \cup {id}) \ {k}
                          /\ \A j \in CacheKeys(before) :
                                before.entry[k].timestamp <= before.entry[j].timestamp
                          /\ before.entry[k].timestamp <= after.entry[id].timestamp]_vars

\* a new id was written into the full cache whose first entry is not its oldest:
\* the second entry is gone, the first and the new one are there
C12_Witness ==
    /\ cacheCalls.transferId = CACHE_LIMIT + 1
    /\ Len(transactionCache.order) = 1000
    /\ 1 \in CacheKeys(transactionCache)
    /\ 2 \notin CacheKeys(transactionCache)
    /\ CACHE_LIMIT + 1 \in CacheKeys(transactionCache)
(***************************************************************************)
(* The level decision                                                      *)
(***************************************************************************)
\* C13: every level returned by getRecommendedPrivacyLevel is one of 1, 2, 3, 4,
\* whatever the user, the chain, the amount, the gas price and the congestion,
\* and whatever was handed to setUserPreference before.
C13_LevelInRange ==
    /\ policyCall.phase = "returned" => policyCall.level \in {1, 2, 3, 4}
    /\ \A u \in DOMAIN userPreferences : userPreferences[u] \in {0, 1, 2, 3, 4}

\* a computed level was returned on a chain without a configured default, to a
\* user whose preference was stored while the call awaited the congestion
C13_Witness ==
    /\ policyCall.phase = "returned"
    /\ policyCall.chainId = "other"
    /\ policyCall.amount = 0
    /\ policyCall.level = Basic
    /\ policyCall.preference = 0
    /\ policyCall.userId = "alice"
    /\ userPreferences["alice"] = Maximum

\* C14: a call made while a preference p is stored for its user returns p, for
\* every chain, amount, gas price and congestion.
C14_PreferenceUnadjusted ==
    policyCall.phase = "returned" /\ policyCall.preference # 0 =>
        policyCall.level = policyCall.preference

\* a stored preference of Enhanced was returned although the gas price and the
\* congestion are above the thresholds that lower a computed level
C14_Witness ==
    /\ policyCall.phase = "returned"
    /\ policyCall.preference = Enhanced
    /\ policyCall.level = Enhanced
    /\ policyCall.gasPrice = 60
    /\ policyCall.congestion = 100
    /\ policyCall.amount = 0

\* the chain defaults, the amount thresholds (t2, t3, t4) and the gas
\* thresholds as the policy manager's constructor sets them
ReferenceDefault(chainId) ==
    IF chainId \in {"binance", "polygon"} THEN 1
    ELSE IF chainId = "moca" THEN 3
    ELSE 2
ReferenceBase(chainId, amount) ==
    IF amount >= 1000 THEN 4
    ELSE IF amount >= 100 THEN 3
    ELSE IF amount >= 10 THEN 2
    ELSE ReferenceDefault(chainId)
ReferenceGasThreshold(tier) == <<50, 30, 20, 10>>[tier]
ReferenceAfterGas(tier, gasPrice) ==
    IF gasPrice > ReferenceGasThreshold(tier) /\ tier > 1 THEN tier - 1 ELSE tier
ReferenceAfterCongestion(tier, congestion) ==
    IF congestion > 70 /\ tier > 1 THEN tier - 1
    ELSE IF congestion < 30 /\ tier < 4 THEN tier + 1
    ELSE tier
ReferenceLevel(chainId, amount, gasPrice, congestion) ==
    ReferenceAfterCongestion(ReferenceAfterGas(ReferenceBase(chainId, amount), gasPrice),
                             congestion)

\* C15: a call made while no preference is stored for its user returns the
\* reference level: the base level from the amount (else the chain default),
\* lowered by one if the gas price is above the threshold of that level and the
\* level is above Basic, then lowered by one if congestion > 70 and the level is
\* above Basic, else raised by one if congestion < 30 and the level is below
\* Maximum. An amount at the Maximum threshold with 60 Gwei and congestion 20
\* gives Maximum; an amount below every threshold on a chain of default Basic
\* with congestion 50 gives Basic.
C15_ReferenceLevel ==
    policyCall.phase = "returned" /\ policyCall.preference = 0 =>
        /\ policyCall.level = ReferenceLevel(policyCall.chainId, policyCall.amount,
                                             policyCall.gasPrice, policyCall.congestion)
        /\ policyCall.amount >= 1000 /\ policyCall.gasPrice = 60 /\ policyCall.congestion = 20
               => policyCall.level = 4
        /\ policyCall.amount < 10 /\ policyCall.chainId = "binance" /\ policyCall.congestion = 50
               => policyCall.level = 1

\* the first worked example: lowered to Enhanced by the gas price, raised back
\* to Maximum by the low congestion
C15_Witness ==
    /\ policyCall.phase = "returned"
    /\ policyCall.preference = 0
    /\ policyCall.amount = 1000
    /\ policyCall.gasPrice = 60
    /\ policyCall.congestion = 20
    /\ policyCall.level = Maximum
(***************************************************************************)
(* Rejected ledger calls                                                   *)
(***************************************************************************)
\* C16: a call of mintWithProof, burnToChain, lockNativeAsset,
\* withdrawLockedAsset or registerRelayAddress that reverts leaves
\* processedProofs, currentRoot, relayAddressMap, the token balances and the
\* contract's native balance as they were.
C16_RejectedCallsChangeNothing ==
    [][(\/ txCalls' # txCalls /\ lastTx'.result # "ok"
        \/ mintCalls' # mintCalls /\ lastMint'.result # "ok")
       => UNCHANGED <<processedProofs, currentRoot, relayAddressMap, balanceOf,
                      totalSupply, nativeBalance>>]_vars

\* a replayed mint and a lock of tier 0 that carried value were both rejected
\* while tokens were minted and native value was locked
C16_Witness ==
    /\ lastMint.result = "ProofAlreadyProcessed"
    /\ lastTx.op = "lockNativeAsset"
    /\ lastTx.result = "InvalidPrivacyLevel"
    /\ totalSupply > 0
    /\ nativeBalance > 0
(***************************************************************************)
(* The errors of mintWithProof                                             *)
(***************************************************************************)
NineErrors ==
    {"InvalidAmount", "InvalidRoot", "InvalidPrivacyLevel", "FutureProof", "ExpiredProof",
     "InvalidRelayAddress", "InvalidSignature", "InvalidZKProof", "ProofAlreadyProcessed"}

\* the rejections that come before the signature is looked at
EarlyRejections ==
    {"Paused", "InvalidInputLength", "InvalidAmount", "InvalidRoot", "InvalidPrivacyLevel",
     "FutureProof", "ExpiredProof", "InvalidRelayAddress"}

\* the last call examined got as far as the classical signature check
ClassicalExamined ==
    /\ lastRequest.examined
    /\ lastMint.result \notin EarlyRejections
    /\ ~(/\ lastRequest.m.privacyLevel = 4
          /\ lastRequest.m.quantumSignature # "" /\ lastRequest.m.quantumPublicKey # "")

\* C17: every rejection of mintWithProof is one of the nine errors, and a
\* classical signature that fails verification is rejected with InvalidSignature.
C17_OnlyNineErrors ==
    /\ lastMint.result \notin {"none", "ok"} => lastMint.result \in NineErrors
    /\ ClassicalExamined /\ lastMint.result # "ok" =>
           lastMint.result \in {"InvalidSignature", "InvalidZKProof", "ProofAlreadyProcessed"}

\* C17 (amended): every rejection of mintWithProof is one of the nine errors,
\* the revert of a paused contract, the revert for fewer than five inputs, or a
\* revert of the ECC library on the classical path: InvalidSignatureParameters
\* for r = 0, s = 0 or s >= Q, else InvalidRecoveryId for a recovery byte other
\* than 2 and 3, else InvalidPoint or an arithmetic panic from the curve test.
C17_RejectionErrors ==
    /\ lastMint.result \notin {"none", "ok"} =>
           lastMint.result \in NineErrors \cup
               {"Paused", "InvalidInputLength", "InvalidSignatureParameters",
                "InvalidRecoveryId", "InvalidPoint", "Panic"}
    /\ ClassicalExamined /\ lastRequest.m.sig = "zeroOrLarge" =>
           lastMint.result = "InvalidSignatureParameters"
    /\ ClassicalExamined /\ lastRequest.m.sig = "badRecoveryId" =>
           lastMint.result = "InvalidRecoveryId"
    /\ ClassicalExamined /\ lastRequest.m.sig = "wellFormed" /\ lastMint.result # "ok" =>
           lastMint.result \in {"InvalidPoint", "Panic", "InvalidSignature",
                                "InvalidZKProof", "ProofAlreadyProcessed"}

\* a tier-1 mint with s = 0 got to the signature check and was rejected by the
\* library's own error
C17_Witness ==
    /\ ClassicalExamined
    /\ lastRequest.m.privacyLevel = 1
    /\ lastRequest.m.sig = "zeroOrLarge"
    /\ lastMint.result = "InvalidSignatureParameters"
(***************************************************************************)
(* Relay bindings                                                          *)
(***************************************************************************)
\* C18: no mintWithProof gets past its relay-resolution step at a ledger time
\* later than the expiry its relay id was registered with.
C18_NoResolutionAfterExpiry ==
    [][mintCalls' # mintCalls /\ lastMint'.result \notin EarlyRejections
       => blockTimestamp <= relayExpiry[1]]_vars
(***************************************************************************)
(* The signed message                                                      *)
(***************************************************************************)
\* C19: the message the ledger builds in mintWithProof is the message the
\* orchestrator hashed and had signed for the same transfer.
C19_SameMessage ==
    messages.built => messages.ledger = messages.orchestrator
(***************************************************************************)
(* The signature path                                                      *)
(***************************************************************************)
\* the last call examined got as far as the signature check
SignatureExamined ==
    lastRequest.examined /\ lastMint.result \notin EarlyRejections

\* tier 4 with both quantum fields non-empty
QuantumSelected ==
    /\ lastRequest.m.privacyLevel = 4
    /\ lastRequest.m.quantumSignature # ""
    /\ lastRequest.m.quantumPublicKey # ""

\* what the remaining checks can end in once the signature is accepted
AfterSignature == {"ok", "InvalidZKProof", "ProofAlreadyProcessed"}

\* C20: at tier 4 with both quantum fields non-empty the answer of the
\* post-quantum verifier decides the signature check, whatever (v, r, s) is; in
\* every other case ECC.verifySchnorr on the deployed key decides it, whatever
\* the post-quantum verifier would answer; a mint succeeds only if the check
\* selected accepted.
C20_SignaturePath ==
    /\ SignatureExamined /\ QuantumSelected =>
           IF lastRequest.pqValid THEN lastMint.result \in AfterSignature
           ELSE lastMint.result = "InvalidSignature"
    /\ SignatureExamined /\ ~QuantumSelected =>
           LET schnorr == verifySchnorr(MPC_PUBKEY_X, MPC_PUBKEY_Y, lastRequest.m.sig)
           IN  IF schnorr = "true" THEN lastMint.result \in AfterSignature
               ELSE IF schnorr = "false" THEN lastMint.result = "InvalidSignature"
               ELSE lastMint.result = schnorr
    /\ lastRequest.examined /\ lastMint.result = "ok" =>
           \/ QuantumSelected /\ lastRequest.pqValid
           \/ ~QuantumSelected
                /\ verifySchnorr(MPC_PUBKEY_X, MPC_PUBKEY_Y, lastRequest.m.sig) = "true"

\* a tier-4 mint without a quantum public key got to the signature check and
\* was rejected by the classical check although the post-quantum verifier
\* would have accepted
C20_Witness ==
    /\ SignatureExamined
    /\ lastRequest.m.privacyLevel = 4
    /\ lastRequest.m.quantumSignature # ""
    /\ lastRequest.m.quantumPublicKey = ""
    /\ lastRequest.pqValid
    /\ lastMint.result \notin AfterSignature
(***************************************************************************)
(* The tokens a mint credits (checked under SpecMint)                      *)
(***************************************************************************)
\* C21: a mintWithProof call that returns true credits the address bound to its
\* relay id with inputs[0] tokens and raises the total supply by as much, every
\* other balance stays, and a call that reverts changes no balance; a relay id
\* without a binding is never minted for, and is rejected with
\* InvalidRelayAddress once the checks of the inputs and the timestamp passed.
C21_MintCreditsBoundAddress ==
    [][mintCalls' = mintCalls + 1 =>
          LET m == lastRequest'.m
              recipient == relayAddressMap[m.relayId]
          IN  /\ lastMint'.result = "ok" =>
                     /\ recipient # ZERO_ADDRESS
                     /\ balanceOf'[recipient] = balanceOf[recipient] + m.amount
                     /\ \A a \in Holders \ {recipient} : balanceOf'[a] = balanceOf[a]
                     /\ totalSupply' = totalSupply + m.amount
              /\ lastMint'.result # "ok" =>
                     balanceOf' = balanceOf /\ totalSupply' = totalSupply
              /\ recipient = ZERO_ADDRESS =>
                     lastMint'.result \in EarlyRejections
              /\ recipient = ZERO_ADDRESS
                    /\ lastMint'.result \notin EarlyRejections \ {"InvalidRelayAddress"} =>
                     lastMint'.result = "InvalidRelayAddress"]_vars

\* a mint of 7 tokens for relay id 1 bound to bob succeeded while alice held the
\* 5 tokens of an earlier mint
C21_Witness ==
    /\ lastRequest.examined /\ lastMint.result = "ok"
    /\ lastRequest.m.amount = 7
    /\ relayAddressMap[1] = "bob"
    /\ balanceOf = [a \in Holders |-> IF a = "bob" THEN 7 ELSE IF a = "alice" THEN 5 ELSE 0]
    /\ totalSupply = 12
(***************************************************************************)
(* Burns (checked under SpecRoot)                                          *)
(***************************************************************************)
\* C22: burnToChain changes nothing but the token balance of its caller and the
\* total supply: a burn that succeeds lowers both by exactly amount, and a burn
\* with amount 0, a tier outside 1..4 or an amount above the caller's balance
\* reverts and changes nothing; no other account, processedProofs or
\* currentRoot is touched either way.
C22_BurnTouchesCallerOnly ==
    [][txCalls' = txCalls + 1 /\ lastTx'.op = "burnToChain" =>
          LET sender == lastTx'.caller
              amount == lastTx'.amount
          IN  /\ UNCHANGED <<processedProofs, currentRoot, relayAddressMap, nativeBalance>>
              /\ \A a \in Holders \ {sender} : balanceOf'[a] = balanceOf[a]
              /\ lastTx'.result = "ok" =>
                     /\ balanceOf'[sender] = balanceOf[sender] - amount
                     /\ totalSupply' = totalSupply - amount
              /\ (\/ amount = 0
                  \/ lastTx'.privacyLevel \notin 1..4
                  \/ balanceOf[sender] < amount) =>
                     lastTx'.result # "ok"
              /\ lastTx'.result # "ok" => UNCHANGED <<balanceOf, totalSupply>>]_vars

\* alice burned her 5 tokens while bob held 7
C22_Witness ==
    /\ lastTx.op = "burnToChain" /\ lastTx.result = "ok"
    /\ lastTx.caller = "alice" /\ lastTx.amount = 5
    /\ balanceOf["alice"] = 0 /\ balanceOf["bob"] = 7
    /\ totalSupply = 7
(***************************************************************************)
(* Native funds (checked under SpecVault)                                  *)
(***************************************************************************)
\* C23: the native balance of the contract goes down only in a
\* withdrawLockedAsset call that returns true; such a call was made by an
\* address that is an authorized oracle at that time and moves no more than
\* the balance held; a call by any other address, an oracle removed by
\* removeAuthorizedOracle included, reverts with UnauthorizedOracle.
C23_OnlyOraclesWithdraw ==
    [][/\ nativeBalance' < nativeBalance =>
             /\ txCalls' = txCalls + 1
             /\ lastTx'.op = "withdrawLockedAsset" /\ lastTx'.result = "ok"
       /\ txCalls' = txCalls + 1 /\ lastTx'.op = "withdrawLockedAsset" =>
             /\ lastTx'.caller \notin authorizedOracles =>
                    lastTx'.result = "UnauthorizedOracle"
             /\ lastTx'.result = "ok" =>
                    /\ lastTx'.caller \in authorizedOracles
                    /\ lastTx'.amount <= nativeBalance
                    /\ nativeBalance' = nativeBalance - lastTx'.amount
             /\ lastTx'.result # "ok" => nativeBalance' = nativeBalance]_vars

\* the first oracle was removed and its withdrawal of the value held was
\* rejected
C23_Witness ==
    /\ "oracle" \notin authorizedOracles
    /\ lastTx.op = "withdrawLockedAsset" /\ lastTx.caller = "oracle"
    /\ lastTx.amount = 1 /\ nativeBalance >= 1
    /\ lastTx.result = "UnauthorizedOracle"
(***************************************************************************)
(* ECC.verifySchnorr against the signing relation (checked under SpecSchnorr) *)
(***************************************************************************)
\* C24: ECC.verifySchnorr returns true for a signature made by the signing
\* relation for the public key it is given, and returns false or reverts when
\* r, s or the message was changed.
C24_SchnorrCorrect ==
    schnorrCall.made =>
        IF schnorrCall.relation = "valid" THEN schnorrCall.result = "true"
        ELSE schnorrCall.result # "true"
(***************************************************************************)
(* The key material of the signing node (checked under SpecKey)            *)
(***************************************************************************)
\* a signHash call that found a key share holding a secret has ended
SignAttemptEnded ==
    /\ signerCalls.last = "signHash" /\ signerCalls.phase = "idle"
    /\ signerCalls.before[1] = "secret"

\* C25: after every signHash attempt on a node that holds a key share, returned
\* or thrown, with or without trusted execution, the key share no longer holds
\* the secret it held before the call.
C25_ShareOverwritten ==
    SignAttemptEnded => keyShare # signerCalls.before

\* C25 (amended): with trusted execution disabled, after every signHash attempt
\* on a node that holds a key share, returned or thrown, the key share no
\* longer holds the secret it held before the call.
C25_ShareOverwrittenWithoutTEE ==
    SignAttemptEnded /\ ~TEE_ENABLED => keyShare # signerCalls.before

\* with trusted execution disabled a signHash call that sent its request and
\* got a signature back has left the key share cleared
C25_Witness ==
    /\ SignAttemptEnded /\ ~TEE_ENABLED
    /\ signerCalls.result = "signature" /\ signerCalls.requests = 1
    /\ keyShare = <<"zeros", 0>>
\* C26: destroy leaves the key share and the post-quantum key pair released
\* (null); called when both are released already it changes nothing; and a
\* signHash call made while the key share is released (no init since the
\* destroy generated a new one) fails with the key-share-not-initialised error
\* without sending a request to the signer network.
C26_DestroyIdempotent ==
    [][/\ signerCalls'.destroys = signerCalls.destroys + 1 =>
             /\ keyShare' = <<"null", 0>> /\ postQuantumKeyPair' = "null"
             /\ keyShare = <<"null", 0>> /\ postQuantumKeyPair = "null" =>
                    UNCHANGED <<keyShare, postQuantumKeyPair, isTeeInitialized,
                                pendingShares, signatureListeners>>
       /\ signerCalls'.signs = signerCalls.signs + 1 /\ keyShare = <<"null", 0>> =>
             /\ signerCalls'.result = "KeyShareNotInitialized"
             /\ signerCalls'.requests = 0
             /\ signerCalls'.phase = "idle"
             /\ UNCHANGED <<keyShare, postQuantumKeyPair>>]_vars

\* a node that was initialised and held a secret was destroyed twice, and the
\* signHash call after that failed with the key-share-not-initialised error
C26_Witness ==
    /\ signerCalls.inits = 1 /\ signerCalls.destroys = 2
    /\ signerCalls.signs = 2
    /\ signerCalls.last = "signHash"
    /\ signerCalls.result = "KeyShareNotInitialized" /\ signerCalls.requests = 0
    /\ keyShare = <<"null", 0>> /\ postQuantumKeyPair = "null"
C29_PayloadAppendOnly ==
    [][\A t \in Transfers :
          MapHas(transactionCache, t) /\ MapHas(transactionCache', t) =>
              transactionCache.entry[t].data.keys \ {"updatedAt"}
                  \subseteq transactionCache'.entry[t].data.keys]_vars
(***************************************************************************)
(* The congestion cache (checked under SpecCongestion)                     *)
(***************************************************************************)
\* C30: a congestion value that getNetworkCongestion returns from its cache was
\* fetched from the oracle for the chain asked about no more than 10 minutes
\* (600000 ms) before the call, whatever lookups for other chains were made in
\* between.
C30_CachedValueFresh ==
    congestionCall.count > 0 /\ congestionCall.cached =>
        congestionCall.now - congestionCall.fetchedAt[congestionCall.chainId] <= 600000
(***************************************************************************)
(* The shares accumulated by the coordinator (checked under SpecSigner)    *)
(***************************************************************************)
\* C31: the shares accumulated for a message hash carry pairwise distinct node
\* indices, all in 1..totalNodes, so at most totalNodes shares are held per
\* hash; a handleSignatureShare call with an index below 1 or above totalNodes
\* is rejected with an error and changes neither the accumulated shares nor
\* the registered callbacks, and no call with an index in the range is
\* rejected so.
C31_SharesDistinctInRange ==
    /\ [](\A h \in Hashes :
             /\ \A k \in 1..Len(pendingShares[h]) :
                    /\ pendingShares[h][k].index \in 1..totalNodes
                    /\ CountIndex(pendingShares[h], pendingShares[h][k].index) = 1
             /\ Len(pendingShares[h]) <= totalNodes)
    /\ [][shareCalls' = shareCalls + 1 =>
             /\ lastCall'.result = "InvalidNodeIndex" <=> lastCall'.index \notin 1..totalNodes
             /\ lastCall'.result = "InvalidNodeIndex" =>
                    UNCHANGED <<pendingShares, signatureListeners, inFlight, invocations>>]_vars

\* a share with the index after the last node was rejected while shares of two
\* nodes were accumulated for its hash
C31_Witness ==
    /\ lastCall.op = "share" /\ lastCall.result = "InvalidNodeIndex"
    /\ lastCall.index = totalNodes + 1
    /\ Len(pendingShares[lastCall.hash]) >= 2
(***************************************************************************)
(* The arithmetic of the ECC library (checked under SpecSchnorr)           *)
(***************************************************************************)
\* C32: for every modulus m > 1 and every a in 1..m-1, ECC.modinv(a, m) returns
\* the x in 0..m-1 with a * x = 1 (mod m) when a is coprime to m, without a
\* panic of its checked arithmetic, and fails with ModInverseDoesNotExist
\* exactly when a is not coprime to m.
C32_ModinvCorrect ==
    eccCall.op = "modinv" /\ eccCall.x >= 1 =>
        IF \E x \in 0..(eccCall.m - 1) : (eccCall.x * x) % eccCall.m = 1
        THEN /\ eccCall.result.status = "ok"
             /\ eccCall.result.value \in 0..(eccCall.m - 1)
             /\ (eccCall.x * eccCall.result.value) % eccCall.m = 1
        ELSE eccCall.result.status = "ModInverseDoesNotExist"

\* C33: for a prime modulus congruent to 3 modulo 4, ECC.sqrt(x) returns a y
\* with y * y = x modulo the prime for every x that is a square modulo it, and
\* rejects with NoSquareRootExists only an x that is not one (the root that
\* recoverPoint takes for its point).
C33_SqrtModular ==
    eccCall.op = "sqrt" =>
        IF \E y \in 0..(eccCall.m - 1) : (y * y) % eccCall.m = eccCall.x
        THEN /\ eccCall.result.status = "ok"
             /\ (eccCall.result.value * eccCall.result.value) % eccCall.m = eccCall.x
        ELSE eccCall.result.status = "NoSquareRootExists"
(***************************************************************************)
(* What a signature authorizes (checked under SpecAuthorization)           *)
(***************************************************************************)
\* the message the ledger checks the signature over, (sourceChain, resolved
\* recipient, inputs), with the signature fields of the request
SignedAuthorization(m, recipient) ==
    <<m.sourceChain, recipient, m.len, m.amount, m.timestamp, m.merkleRoot, m.privacyLevel,
      m.sig, m.quantumSignature, m.quantumPublicKey>>

\* C34: one signed authorization mints at most once: a mintWithProof call that
\* carries the signed message (sourceChain, resolved recipient, inputs) and
\* the signature of the call that succeeded before it does not succeed,
\* whatever its other fields are.
C34_OneMintPerAuthorization ==
    [][(/\ mintCalls' = mintCalls + 1
        /\ lastRequest.examined /\ lastMint.result = "ok"
        /\ lastRequest'.examined /\ lastMint'.result = "ok")
         => SignedAuthorization(lastRequest.m, lastMint.recipient)
                # SignedAuthorization(lastRequest'.m, lastMint'.recipient)]_vars

\* C35: a mintWithProof call succeeds only with a signature made with key
\* material fixed at deployment: its (v, r, s) verifies under the deployed key
\* of the signer group, or its post-quantum signature is the group's, under
\* the group's public key and not one the caller chose.
C35_MintNeedsDeployedKey ==
    lastRequest.examined /\ lastMint.result = "ok" =>
        \/ verifySchnorr(MPC_PUBKEY_X, MPC_PUBKEY_Y, lastRequest.m.sig) = "true"
        \/ lastRequest.m.quantumPublicKey = "k1"
(***************************************************************************)
(* Signing more than once (checked under SpecKey)                          *)
(***************************************************************************)
\* C36: every signHash call on an initialised node that has not been destroyed
\* derives its partial signature from the key share that init established:
\* with trusted execution disabled (the path that reads the share), the share
\* found by a call that sends its partial signature to the signer network is
\* a secret generated by init, for the first call and for every later one.
C36_SignsWithInitShare ==
    (signerCalls.signs > 0 /\ ~TEE_ENABLED /\ signerCalls.requests = 1) =>
        signerCalls.before[1] = "secret"
\* C37: a mint request of a tier that uses no relay address (Basic or Standard),
\* sent with the empty relay id for which nothing was registered, is not turned
\* down by the ledger's relay-resolution step
C37_RelaylessTierPassesRelayStep ==
    (/\ lastRequest.examined
     /\ ~getPrivacyConfig(lastRequest.m.privacyLevel).useRelayAddress
     /\ lastRequest.m.relayId = 0
     /\ lastMint.recipient = ZERO_ADDRESS) =>
        lastMint.result # "InvalidRelayAddress"

\* C38: once an aggregation of K accumulated shares of a hash has succeeded and a
\* callback is registered for the hash while the K shares are held (the
\* registration made before, between or after the arrivals), a callback of the
\* hash is eventually invoked, with no further share having to arrive
C38_DeliveredWhateverOrder ==
    \A h \in Hashes :
        []((lastCall.op = "aggregated" /\ lastCall.hash = h /\ lastCall.result = "noListener") =>
              []((signatureListeners[h] # NoListener /\ Len(pendingShares[h]) >= THRESHOLD) =>
                    <>(invocations[h] # <<>>)))

\* C39: the level returned to a user without a stored preference is not below
\* the level the same chain, gas price and congestion give for any smaller
\* amount, on every chain (a larger amount never lowers the level)
C39_LevelMonotoneInAmount ==
    (policyCall.phase = "returned" /\ policyCall.preference = 0) =>
        \A smaller \in {0, 10, 99, 100, 999, 1000} :
            smaller < policyCall.amount =>
                getRecommendedPrivacyLevel(0, policyCall.chainId, smaller, policyCall.gasPrice,
                                           policyCall.congestion) <= policyCall.level

\* C40: a withdrawLockedAsset call that carries a transaction hash for which
\* nothing is locked does not succeed: when the only call made so far is a
\* lockNativeAsset that named one hash, a withdrawal naming another hash is
\* turned down (what is paid out for a hash never exceeds what was locked for it)
C40_WithdrawalWithinLock ==
    [][(/\ txCalls = 1 /\ lastTx.op = "lockNativeAsset" /\ lastTx.result = "ok"
        /\ txCalls' = 2 /\ lastTx'.op = "withdrawLockedAsset"
        /\ lastTx'.txHash # lastTx.txHash) =>
           lastTx'.result # "ok"]_vars

====
